---- MODULE Spec2Model ----
(***************************************************************************)
(* Simulador de asignacion de memoria (particiones fijas, Best-Fit) y      *)
(* planificacion de CPU (SRTF): Proceso, Particion, GestorMemoria,         *)
(* Planificador y el bucle de eventos de Simulador.simular.                *)
(* Cada llamada a un metodo dentro de simular es un paso del modelo; pc    *)
(* es la posicion dentro de simular.                                       *)
(***************************************************************************)
EXTENDS Integers, Sequences, FiniteSets, TLC

VARIABLES
    procesos,                  \* Simulador.procesos: secuencia de registros Proceso
    particiones,               \* GestorMemoria.particiones: id -> proceso_asignado
    cola_listos,               \* Planificador.cola_listos (indices en procesos)
    cola_listos_suspendidos,   \* Planificador.cola_listos_suspendidos
    proceso_ejecutando,        \* Planificador.proceso_ejecutando
    cola_nuevos,               \* Simulador.cola_nuevos
    tiempo_actual,             \* Simulador.tiempo_actual
    pc,                        \* posicion dentro de cargar_procesos / simular
    fase,                      \* rama de simular que llamo a la pasada de admision
    hay_arribos,               \* local de simular: hay arribos en tiempo_siguiente
    proceso_terminado,         \* local de simular: retorno de finalizar_proceso_actual
    retorno,                   \* valor devuelto (o excepcion lanzada) por la ultima llamada
    mostrado,                  \* TRUE si el estado es el que acaba de mostrar mostrar_estado
    simulador_1                \* el Simulador de la primera generacion (src/simulador.py):
                               \* registro con sus atributos, su posicion y sus locales

vars == <<procesos, particiones, cola_listos, cola_listos_suspendidos,
          proceso_ejecutando, cola_nuevos, tiempo_actual, pc, fase,
          hay_arribos, proceso_terminado, retorno, mostrado, simulador_1>>

\* variables del Simulador de la generacion actual (src/src/core/simulador.py)
simulador_vars == <<procesos, particiones, cola_listos, cola_listos_suspendidos,
                    proceso_ejecutando, cola_nuevos, tiempo_actual, pc, fase,
                    hay_arribos, proceso_terminado, retorno, mostrado>>

None == -1

(***************************************************************************)
(* Cotas del modelo                                                        *)
(***************************************************************************)
MaxProcs == 2
MaxArribo == 1
MaxIrrupcion == 3

(***************************************************************************)
(* Constantes del programa                                                 *)
(***************************************************************************)
TAMANO_SO == 100
TAMANO_GRANDE == 250
TAMANO_MEDIANO == 150
TAMANO_PEQUENO == 50
GRADO_MULTIPROGRAMACION_MAX == 5
MAX_PROCESOS == 10

\* EstadoProceso
SIN_ARRIBAR == "SIN_ARRIBAR"
NUEVO == "NUEVO"
LISTO == "LISTO"
LISTO_SUSPENDIDO == "LISTO_SUSPENDIDO"
EJECUCION == "EJECUCION"
TERMINADO == "TERMINADO"

EstadoProceso == {SIN_ARRIBAR, NUEVO, LISTO, LISTO_SUSPENDIDO, EJECUCION, TERMINADO}

\* GestorMemoria._inicializar_particiones: ids 0..3; 0 es la del sistema operativo
IdsParticion == 0..3

tamano_particion == [i \in IdsParticion |->
    CASE i = 0 -> TAMANO_SO
      [] i = 1 -> TAMANO_GRANDE
      [] i = 2 -> TAMANO_MEDIANO
      [] OTHER -> TAMANO_PEQUENO]

es_sistema_operativo == [i \in IdsParticion |-> i = 0]

\* variante: tiempo_restante empieza una unidad por debajo de la rafaga
Proceso_con_rafaga_corta(tamano, tiempo_arribo, tiempo_irrupcion) ==
    [tamano |-> tamano,
     tiempo_arribo |-> tiempo_arribo,
     tiempo_irrupcion |-> tiempo_irrupcion,
     tiempo_restante |-> tiempo_irrupcion - 1,
     estado |-> SIN_ARRIBAR,
     tiempo_llegada_listo |-> None,
     tiempo_finalizacion |-> None,
     particion_asignada |-> None,
     tiempo_espera_acumulado |-> 0,
     ultimo_tiempo_espera_inicio |-> None]

\* Proceso.__init__
Proceso(tamano, tiempo_arribo, tiempo_irrupcion) ==
    [tamano |-> tamano,
     tiempo_arribo |-> tiempo_arribo,
     tiempo_irrupcion |-> tiempo_irrupcion,
     tiempo_restante |-> tiempo_irrupcion,
     estado |-> SIN_ARRIBAR,
     tiempo_llegada_listo |-> None,
     tiempo_finalizacion |-> None,
     particion_asignada |-> None,
     tiempo_espera_acumulado |-> 0,
     ultimo_tiempo_espera_inicio |-> None]

\* variante: cada entrada a LISTO pisa tiempo_llegada_listo
actualizar_estado_pisando_llegada(p, nuevo_estado, t) ==
    LET estado_anterior == p.estado
        p1 == [p EXCEPT !.estado = nuevo_estado]
        p2 == IF nuevo_estado = LISTO
              THEN [p1 EXCEPT !.tiempo_llegada_listo = t,
                              !.ultimo_tiempo_espera_inicio = t]
              ELSE p1
        p3 == IF nuevo_estado = EJECUCION /\ estado_anterior = LISTO
                 /\ p2.ultimo_tiempo_espera_inicio # None
              THEN [p2 EXCEPT !.tiempo_espera_acumulado =
                                  @ + (t - p2.ultimo_tiempo_espera_inicio),
                              !.ultimo_tiempo_espera_inicio = None]
              ELSE p2
    IN  IF nuevo_estado = TERMINADO
        THEN [p3 EXCEPT !.tiempo_finalizacion = t]
        ELSE p3

\* Proceso.actualizar_estado (tiempo_actual siempre se pasa, nunca es None)
actualizar_estado(p, nuevo_estado, t) ==
    LET estado_anterior == p.estado
        p1 == [p EXCEPT !.estado = nuevo_estado]
        p2 == IF nuevo_estado = LISTO
              THEN [p1 EXCEPT !.tiempo_llegada_listo =
                                  IF p1.tiempo_llegada_listo = None THEN t ELSE @,
                              !.ultimo_tiempo_espera_inicio = t]
              ELSE p1
        p3 == IF nuevo_estado = EJECUCION /\ estado_anterior = LISTO
                 /\ p2.ultimo_tiempo_espera_inicio # None
              THEN [p2 EXCEPT !.tiempo_espera_acumulado =
                                  @ + (t - p2.ultimo_tiempo_espera_inicio),
                              !.ultimo_tiempo_espera_inicio = None]
              ELSE p2
    IN  IF nuevo_estado = TERMINADO
        THEN [p3 EXCEPT !.tiempo_finalizacion = t]
        ELSE p3

\* Proceso.calcular_tiempo_retorno (p es el registro del proceso)
calcular_tiempo_retorno(p) ==
    IF p.tiempo_finalizacion # None
    THEN p.tiempo_finalizacion - p.tiempo_arribo
    ELSE None

\* Proceso.calcular_tiempo_espera
calcular_tiempo_espera(p) ==
    LET tiempo_retorno == calcular_tiempo_retorno(p)
    IN  IF tiempo_retorno # None THEN tiempo_retorno - p.tiempo_irrupcion ELSE None

(***************************************************************************)
(* list.sort de Python: ordenamiento estable. clave[x] es un par           *)
(* <<k1, k2>> comparado lexicograficamente.                                *)
(***************************************************************************)
clave_menor(a, b) == a[1] < b[1] \/ (a[1] = b[1] /\ a[2] < b[2])

\* variante: el elemento nuevo queda delante de los de igual clave
RECURSIVE insertar_antes_de_iguales(_, _, _)
insertar_antes_de_iguales(s, x, clave) ==
    IF s = <<>> THEN <<x>>
    ELSE IF ~clave_menor(clave[Head(s)], clave[x])
         THEN <<x>> \o s
         ELSE <<Head(s)>> \o insertar_antes_de_iguales(Tail(s), x, clave)

RECURSIVE insertar_estable(_, _, _)
insertar_estable(s, x, clave) ==
    IF s = <<>> THEN <<x>>
    ELSE IF clave_menor(clave[x], clave[Head(s)])
         THEN <<x>> \o s
         ELSE <<Head(s)>> \o insertar_estable(Tail(s), x, clave)

\* ordenamiento por insercion; el prefijo ya ordenado se toma de un conjunto
\* unitario para que su valor se calcule una sola vez
RECURSIVE sort_estable(_, _)
sort_estable(s, clave) ==
    IF s = <<>> THEN <<>>
    ELSE CHOOSE r \in {insertar_estable(ordenado, s[Len(s)], clave) :
                           ordenado \in {sort_estable(SubSeq(s, 1, Len(s) - 1), clave)}} :
             TRUE

(***************************************************************************)
(* Particion                                                               *)
(***************************************************************************)
\* Particion.esta_libre
esta_libre(parts, i) == parts[i] = None /\ ~es_sistema_operativo[i]

\* variante: la particion guarda el proceso pero el proceso no guarda la
\* particion
particion_asignar_proceso_sin_referencia(parts, procs, i, p) ==
    IF es_sistema_operativo[i] \/ ~esta_libre(parts, i)
       \/ procs[p].tamano > tamano_particion[i]
    THEN [ret |-> FALSE, particiones |-> parts, procesos |-> procs]
    ELSE [ret |-> TRUE, particiones |-> [parts EXCEPT ![i] = p], procesos |-> procs]

\* Particion.asignar_proceso: devuelve [ret, particiones, procesos]
particion_asignar_proceso(parts, procs, i, p) ==
    IF es_sistema_operativo[i] THEN [ret |-> FALSE, particiones |-> parts, procesos |-> procs]
    ELSE IF ~esta_libre(parts, i) THEN [ret |-> FALSE, particiones |-> parts, procesos |-> procs]
    ELSE IF procs[p].tamano > tamano_particion[i]
         THEN [ret |-> FALSE, particiones |-> parts, procesos |-> procs]
    ELSE [ret |-> TRUE,
          particiones |-> [parts EXCEPT ![i] = p],
          procesos |-> [procs EXCEPT ![p].particion_asignada = i]]

\* variante: la particion queda libre pero el proceso conserva la referencia
particion_liberar_sin_referencia(parts, procs, i) ==
    [particiones |-> [parts EXCEPT ![i] = None], procesos |-> procs]

\* variante: el proceso pierde la referencia pero la particion sigue ocupada
particion_liberar_sin_vaciar(parts, procs, i) ==
    [particiones |-> parts,
     procesos |-> IF parts[i] # None
                  THEN [procs EXCEPT ![parts[i]].particion_asignada = None]
                  ELSE procs]

\* Particion.liberar: devuelve [particiones, procesos]
particion_liberar(parts, procs, i) ==
    LET proceso == parts[i]
    IN  [particiones |-> [parts EXCEPT ![i] = None],
         procesos |-> IF proceso # None
                      THEN [procs EXCEPT ![proceso].particion_asignada = None]
                      ELSE procs]

\* Particion.calcular_fragmentacion_interna
calcular_fragmentacion_interna(parts, procs, i) ==
    IF es_sistema_operativo[i] THEN 0
    ELSE IF parts[i] = None THEN 0
    ELSE tamano_particion[i] - procs[parts[i]].tamano

(***************************************************************************)
(* GestorMemoria                                                           *)
(***************************************************************************)
\* variante: primera particion libre donde entra el proceso (first-fit)
RECURSIVE best_fit_desde_primero(_, _, _, _, _)
best_fit_desde_primero(parts, tamano, i, mejor_particion, menor_desperdicio) ==
    IF i > 3 THEN mejor_particion
    ELSE IF esta_libre(parts, i) /\ tamano_particion[i] >= tamano
         THEN i
         ELSE best_fit_desde_primero(parts, tamano, i + 1, mejor_particion,
                                     menor_desperdicio)

\* variante: se elige la particion de mayor desperdicio (worst-fit)
RECURSIVE best_fit_desde_mayor_desperdicio(_, _, _, _, _)
best_fit_desde_mayor_desperdicio(parts, tamano, i, mejor_particion, menor_desperdicio) ==
    IF i > 3 THEN mejor_particion
    ELSE IF esta_libre(parts, i) /\ tamano_particion[i] >= tamano
         THEN LET desperdicio == tamano_particion[i] - tamano
              IN  IF menor_desperdicio = None \/ desperdicio > menor_desperdicio
                  THEN best_fit_desde_mayor_desperdicio(parts, tamano, i + 1, i, desperdicio)
                  ELSE best_fit_desde_mayor_desperdicio(parts, tamano, i + 1,
                                                        mejor_particion, menor_desperdicio)
         ELSE best_fit_desde_mayor_desperdicio(parts, tamano, i + 1, mejor_particion,
                                               menor_desperdicio)

\* cuerpo del for de best_fit desde la particion i; menor = None es float('inf')
RECURSIVE best_fit_desde(_, _, _, _, _)
best_fit_desde(parts, tamano, i, mejor_particion, menor_desperdicio) ==
    IF i > 3 THEN mejor_particion
    ELSE IF esta_libre(parts, i) /\ tamano_particion[i] >= tamano
         THEN LET desperdicio == tamano_particion[i] - tamano
              IN  IF menor_desperdicio = None \/ desperdicio < menor_desperdicio
                  THEN best_fit_desde(parts, tamano, i + 1, i, desperdicio)
                  ELSE best_fit_desde(parts, tamano, i + 1, mejor_particion, menor_desperdicio)
         ELSE best_fit_desde(parts, tamano, i + 1, mejor_particion, menor_desperdicio)

\* variante: solo se considera la particion mas grande
best_fit_solo_grande(parts, tamano) ==
    IF esta_libre(parts, 1) /\ tamano_particion[1] >= tamano THEN 1 ELSE None

\* GestorMemoria.best_fit: id de la particion elegida o None
best_fit(parts, tamano) == best_fit_desde(parts, tamano, 0, None, None)

\* GestorMemoria.contar_procesos_en_memoria
contar_procesos_en_memoria(parts) ==
    Cardinality({i \in IdsParticion : ~es_sistema_operativo[i] /\ parts[i] # None})

\* variante: si best_fit no encuentra particion se usa la primera libre
asignar_proceso_sin_verificar(parts, procs, p) ==
    LET particion == best_fit(parts, procs[p].tamano)
        libres == {i \in IdsParticion : esta_libre(parts, i)}
    IN  IF particion # None
        THEN particion_asignar_proceso(parts, procs, particion, p)
        ELSE IF libres = {}
        THEN [ret |-> FALSE, particiones |-> parts, procesos |-> procs]
        ELSE LET i == CHOOSE j \in libres : \A m \in libres : j <= m
             IN  [ret |-> TRUE,
                  particiones |-> [parts EXCEPT ![i] = p],
                  procesos |-> [procs EXCEPT ![p].particion_asignada = i]]

\* variante: el proceso va a la primera particion libre sin mirar el tamano
asignar_proceso_en_primera_libre(parts, procs, p) ==
    LET libres == {i \in IdsParticion : esta_libre(parts, i)}
    IN  IF libres = {}
        THEN [ret |-> FALSE, particiones |-> parts, procesos |-> procs]
        ELSE LET i == CHOOSE j \in libres : \A m \in libres : j <= m
             IN  [ret |-> TRUE,
                  particiones |-> [parts EXCEPT ![i] = p],
                  procesos |-> [procs EXCEPT ![p].particion_asignada = i]]

\* variante: el limite de procesos en memoria es uno
asignar_proceso_con_limite_uno(parts, procs, p) ==
    IF contar_procesos_en_memoria(parts) >= 1
    THEN [ret |-> FALSE, particiones |-> parts, procesos |-> procs]
    ELSE LET particion == best_fit(parts, procs[p].tamano)
         IN  IF particion = None
             THEN [ret |-> FALSE, particiones |-> parts, procesos |-> procs]
             ELSE particion_asignar_proceso(parts, procs, particion, p)

\* GestorMemoria.asignar_proceso: devuelve [ret, particiones, procesos]
asignar_proceso(parts, procs, p) ==
    IF contar_procesos_en_memoria(parts) >= GRADO_MULTIPROGRAMACION_MAX
    THEN [ret |-> FALSE, particiones |-> parts, procesos |-> procs]
    ELSE LET particion == best_fit(parts, procs[p].tamano)
         IN  IF particion = None
             THEN [ret |-> FALSE, particiones |-> parts, procesos |-> procs]
             ELSE particion_asignar_proceso(parts, procs, particion, p)

\* variante: la llamada no libera nada
liberar_particion_sin_efecto(parts, procs, p) ==
    [ret |-> FALSE, particiones |-> parts, procesos |-> procs]

\* GestorMemoria.liberar_particion: devuelve [ret, particiones, procesos]
liberar_particion(parts, procs, p) ==
    IF procs[p].particion_asignada = None
    THEN [ret |-> FALSE, particiones |-> parts, procesos |-> procs]
    ELSE LET r == particion_liberar(parts, procs, procs[p].particion_asignada)
         IN  [ret |-> TRUE, particiones |-> r.particiones, procesos |-> r.procesos]

(***************************************************************************)
(* Planificador: los operadores devuelven registros con los campos del     *)
(* planificador que cambian y la lista de procesos.                        *)
(***************************************************************************)
\* variante: la cola queda ordenada de mayor a menor tiempo_restante
ordenar_cola_listos_descendente(cola, procs) ==
    sort_estable(cola, [p \in 1..Len(procs) |-> <<0 - procs[p].tiempo_restante, 0>>])

\* Planificador._ordenar_cola_listos
ordenar_cola_listos(cola, procs) ==
    sort_estable(cola, [p \in 1..Len(procs) |-> <<procs[p].tiempo_restante, 0>>])

\* Planificador.agregar_listo: devuelve [cola_listos, procesos]
agregar_listo(cola, procs, p, t) ==
    LET procs1 == [procs EXCEPT ![p] = actualizar_estado(@, LISTO, t)]
    IN  [cola_listos |-> ordenar_cola_listos(Append(cola, p), procs1),
         procesos |-> procs1]

\* variante: la cola de suspendidos se reordena por tiempo_restante
agregar_suspendido_ordenado(cola, procs, p, t) ==
    [cola_listos_suspendidos |->
         sort_estable(Append(cola, p),
                      [q \in 1..Len(procs) |-> <<procs[q].tiempo_restante, 0>>]),
     procesos |-> [procs EXCEPT ![p] = actualizar_estado(@, LISTO_SUSPENDIDO, t)]]

\* variante: el suspendido entra por el frente de la cola
agregar_suspendido_al_frente(cola, procs, p, t) ==
    [cola_listos_suspendidos |-> <<p>> \o cola,
     procesos |-> [procs EXCEPT ![p] = actualizar_estado(@, LISTO_SUSPENDIDO, t)]]

\* Planificador.agregar_suspendido: devuelve [cola_listos_suspendidos, procesos]
agregar_suspendido(cola, procs, p, t) ==
    [cola_listos_suspendidos |-> Append(cola, p),
     procesos |-> [procs EXCEPT ![p] = actualizar_estado(@, LISTO_SUSPENDIDO, t)]]

\* variante: el proceso preemptado vuelve a la cola sin cambiar de estado
preemptar_sin_degradar(cola, ejecutando, procs, t) ==
    LET cola1 == ordenar_cola_listos(Append(cola, ejecutando), procs)
    IN  [ret |-> Head(cola1),
         cola_listos |-> Tail(cola1),
         proceso_ejecutando |-> Head(cola1),
         procesos |-> [procs EXCEPT ![Head(cola1)] = actualizar_estado(@, EJECUCION, t)]]

\* variante: el proceso preemptado pierde la referencia a su particion
preemptar_con_swap_out(cola, ejecutando, procs, t) ==
    LET proceso_preemptado == ejecutando
        procs1 == [procs EXCEPT ![proceso_preemptado] =
                       [actualizar_estado(@, LISTO, t) EXCEPT !.particion_asignada = None]]
        cola1 == ordenar_cola_listos(Append(cola, proceso_preemptado), procs1)
    IN  [ret |-> Head(cola1),
         cola_listos |-> Tail(cola1),
         proceso_ejecutando |-> Head(cola1),
         procesos |-> [procs1 EXCEPT ![Head(cola1)] = actualizar_estado(@, EJECUCION, t)]]

\* rama de preemption de seleccionar_siguiente (lineas 72-80)
preemptar(cola, ejecutando, procs, t) ==
    LET proceso_preemptado == ejecutando
        procs1 == [procs EXCEPT ![proceso_preemptado] = actualizar_estado(@, LISTO, t)]
        cola1 == ordenar_cola_listos(Append(cola, proceso_preemptado), procs1)
    IN  [ret |-> Head(cola1),
         cola_listos |-> Tail(cola1),
         proceso_ejecutando |-> Head(cola1),
         procesos |-> [procs1 EXCEPT ![Head(cola1)] = actualizar_estado(@, EJECUCION, t)]]

\* variante: nunca se preempta
debe_preemptar_nunca(candidato, ejecutando) == FALSE

\* variante: el empate tambien preempta
debe_preemptar_con_empate(candidato, ejecutando) ==
    candidato.tiempo_restante <= ejecutando.tiempo_restante

\* variante: preempta el candidato de mayor tiempo_restante
debe_preemptar_invertido(candidato, ejecutando) ==
    candidato.tiempo_restante > ejecutando.tiempo_restante

\* condicion de preemption de seleccionar_siguiente (linea 71)
debe_preemptar(candidato, ejecutando) ==
    candidato.tiempo_restante < ejecutando.tiempo_restante

\* variante: con la CPU libre no se despacha a nadie
seleccionar_siguiente_sin_despachar(cola, ejecutando, procs, t) ==
    IF ejecutando = None
    THEN [ret |-> None, cola_listos |-> cola, proceso_ejecutando |-> ejecutando,
          procesos |-> procs]
    ELSE IF cola # <<>> /\ debe_preemptar(procs[Head(cola)], procs[ejecutando])
    THEN preemptar(cola, ejecutando, procs, t)
    ELSE [ret |-> ejecutando, cola_listos |-> cola, proceso_ejecutando |-> ejecutando,
          procesos |-> procs]

\* Planificador.seleccionar_siguiente:
\* devuelve [ret, cola_listos, proceso_ejecutando, procesos]
seleccionar_siguiente(cola, ejecutando, procs, t) ==
    IF cola = <<>> /\ ejecutando = None
    THEN [ret |-> None, cola_listos |-> cola, proceso_ejecutando |-> ejecutando,
          procesos |-> procs]
    ELSE IF ejecutando = None
    THEN [ret |-> Head(cola),
          cola_listos |-> Tail(cola),
          proceso_ejecutando |-> Head(cola),
          procesos |-> [procs EXCEPT ![Head(cola)] = actualizar_estado(@, EJECUCION, t)]]
    ELSE IF cola # <<>> /\ debe_preemptar(procs[Head(cola)], procs[ejecutando])
    THEN preemptar(cola, ejecutando, procs, t)
    ELSE [ret |-> ejecutando, cola_listos |-> cola, proceso_ejecutando |-> ejecutando,
          procesos |-> procs]

\* variante: proceso_ejecutando no se limpia
finalizar_proceso_actual_sin_limpiar(ejecutando, procs, t) ==
    IF ejecutando = None
    THEN [ret |-> None, proceso_ejecutando |-> ejecutando, procesos |-> procs]
    ELSE [ret |-> ejecutando,
          proceso_ejecutando |-> ejecutando,
          procesos |-> [procs EXCEPT ![ejecutando] = actualizar_estado(@, TERMINADO, t)]]

\* variante: el proceso pasa a TERMINADO sin registrar tiempo_finalizacion
finalizar_proceso_actual_sin_tiempo(ejecutando, procs, t) ==
    IF ejecutando = None
    THEN [ret |-> None, proceso_ejecutando |-> ejecutando, procesos |-> procs]
    ELSE [ret |-> ejecutando,
          proceso_ejecutando |-> None,
          procesos |-> [procs EXCEPT ![ejecutando].estado = TERMINADO]]

\* Planificador.finalizar_proceso_actual: devuelve [ret, proceso_ejecutando, procesos]
finalizar_proceso_actual(ejecutando, procs, t) ==
    IF ejecutando = None
    THEN [ret |-> None, proceso_ejecutando |-> ejecutando, procesos |-> procs]
    ELSE [ret |-> ejecutando,
          proceso_ejecutando |-> None,
          procesos |-> [procs EXCEPT ![ejecutando] = actualizar_estado(@, TERMINADO, t)]]

(***************************************************************************)
(* Entradas: filas del archivo CSV ya validadas por                        *)
(* LectorCSV._crear_proceso_desde_fila (memoria_K > 0, arribo >= 0,        *)
(* irrupcion > 0).                                                         *)
(***************************************************************************)
\* tamanos representativos: entra en las tres particiones, solo en la de
\* 250 KB, en ninguna
Tamanos == {TAMANO_PEQUENO, TAMANO_GRANDE - TAMANO_PEQUENO, TAMANO_GRANDE + 10}

Filas == [tamano : Tamanos, tiempo_arribo : 0..MaxArribo, tiempo_irrupcion : 1..MaxIrrupcion]

\* archivos de hasta MaxProcs filas, en cualquier orden
ArchivosGenerales == UNION {[1..n -> Filas] : n \in 1..MaxProcs}

\* archivos con un proceso mas que el grado de multiprogramacion: todos
\* arriban en 0 salvo quizas el ultimo; los k primeros tienen irrupcion 1 y
\* los demas 2 (el orden de archivo entre procesos de distinta irrupcion y
\* mismo arribo no cambia la corrida, salvo el nombre de los procesos)
NCarga == GRADO_MULTIPROGRAMACION_MAX + 1

TamanosCarga == {TAMANO_PEQUENO, TAMANO_GRANDE - TAMANO_PEQUENO}

ArchivosCarga ==
    {[i \in 1..NCarga |->
        [tamano |-> tam[i],
         tiempo_arribo |-> IF i = NCarga THEN u ELSE 0,
         tiempo_irrupcion |-> IF i = NCarga THEN b ELSE IF i <= k THEN 1 ELSE 2]] :
        tam \in [1..NCarga -> TamanosCarga], u \in 0..1, b \in 1..2,
        k \in 0..(NCarga - 1)}

\* escenario A: un solo proceso de 60 KB, arribo 0, irrupcion 4
EscenarioA == <<[tamano |-> 60, tiempo_arribo |-> 0, tiempo_irrupcion |-> 4]>>

\* escenario B: P1 (30 KB, irrupcion 5) y P2 (20 KB, irrupcion 2) arriban en
\* 0, en los dos ordenes de archivo
EscenarioB ==
    <<[tamano |-> 30, tiempo_arribo |-> 0, tiempo_irrupcion |-> 5],
      [tamano |-> 20, tiempo_arribo |-> 0, tiempo_irrupcion |-> 2]>>

EscenarioB_invertido == <<EscenarioB[2], EscenarioB[1]>>

\* escenario C: 6 procesos de 40 KB con arribos 0,0,0,0,0,1; el escenario no
\* fija las irrupciones
IrrupcionesEscenarioC == {1, 2}

EscenariosC ==
    {[i \in 1..6 |->
        [tamano |-> 40,
         tiempo_arribo |-> IF i = 6 THEN 1 ELSE 0,
         tiempo_irrupcion |-> b[i]]] : b \in [1..6 -> IrrupcionesEscenarioC]}

\* escenario D: P1 (arribo 0, irrupcion 10) y P2 (arribo 3, irrupcion 2); el
\* escenario no fija los tamanos, solo que P2 se admite al arribar
EscenariosD ==
    {<<[tamano |-> t, tiempo_arribo |-> 0, tiempo_irrupcion |-> 10],
       [tamano |-> TAMANO_PEQUENO, tiempo_arribo |-> 3, tiempo_irrupcion |-> 2]>> :
        t \in TamanosCarga}

Escenarios ==
    {EscenarioA, EscenarioB, EscenarioB_invertido} \cup EscenariosC \cup EscenariosD

Archivos == ArchivosGenerales \cup ArchivosCarga \cup Escenarios

\* LectorCSV.leer_procesos: construye los procesos y los ordena (estable)
\* por tiempo_arribo
leer_procesos(filas) ==
    LET orden == sort_estable([i \in 1..Len(filas) |-> i],
                              [i \in 1..Len(filas) |-> <<filas[i].tiempo_arribo, 0>>])
    IN  [k \in 1..Len(filas) |->
            Proceso(filas[orden[k]].tamano, filas[orden[k]].tiempo_arribo,
                    filas[orden[k]].tiempo_irrupcion)]

(***************************************************************************)
(* LectorCSV sobre el archivo tal como lo entrega csv.DictReader: cada     *)
(* campo de una fila es None (la fila tiene menos campos que el            *)
(* encabezado), un texto vacio, un texto que int() no acepta o un texto    *)
(* que int() convierte en valor.                                           *)
(***************************************************************************)
CampoAusente == [tipo |-> "ausente", valor |-> 0]
CampoVacio == [tipo |-> "vacio", valor |-> 0]
CampoTexto == [tipo |-> "texto", valor |-> 0]
CampoEntero(n) == [tipo |-> "entero", valor |-> n]

\* excepciones que salen de leer_procesos
ValueError == "ValueError"
AttributeError == "AttributeError"
sin_excepcion == "ninguna"

\* campo.strip(): None no tiene strip
excepcion_de_strip(campo) ==
    IF campo.tipo = "ausente" THEN AttributeError ELSE sin_excepcion

\* int(campo.strip()) dentro del try de _crear_proceso_desde_fila
excepcion_de_int(campo) ==
    IF excepcion_de_strip(campo) # sin_excepcion THEN excepcion_de_strip(campo)
    ELSE IF campo.tipo # "entero" THEN ValueError
    ELSE sin_excepcion

\* LectorCSV._crear_proceso_desde_fila: devuelve [excepcion, fila], con fila
\* los argumentos con que se construye el Proceso
crear_proceso_desde_fila(fila) ==
    LET validada == [tamano |-> fila.memoria_K.valor,
                     tiempo_arribo |-> fila.t_arribo_al_sistema.valor,
                     tiempo_irrupcion |-> fila.tiempo_irrupcion.valor]
        falla(e) == [excepcion |-> e, fila |-> validada]
    IN  IF excepcion_de_strip(fila.proceso_id) # sin_excepcion
        THEN falla(excepcion_de_strip(fila.proceso_id))
        ELSE IF fila.proceso_id.tipo = "vacio" THEN falla(ValueError)
        ELSE IF excepcion_de_int(fila.memoria_K) # sin_excepcion
        THEN falla(excepcion_de_int(fila.memoria_K))
        ELSE IF excepcion_de_int(fila.t_arribo_al_sistema) # sin_excepcion
        THEN falla(excepcion_de_int(fila.t_arribo_al_sistema))
        ELSE IF excepcion_de_int(fila.tiempo_irrupcion) # sin_excepcion
        THEN falla(excepcion_de_int(fila.tiempo_irrupcion))
        ELSE IF validada.tamano <= 0 THEN falla(ValueError)
        ELSE IF validada.tiempo_arribo < 0 THEN falla(ValueError)
        ELSE IF validada.tiempo_irrupcion <= 0 THEN falla(ValueError)
        ELSE falla(sin_excepcion)

\* el for de leer_procesos desde la fila i: devuelve [excepcion, filas]
RECURSIVE leer_filas_desde(_, _, _)
leer_filas_desde(filas, i, leidas) ==
    IF i > Len(filas) THEN [excepcion |-> sin_excepcion, filas |-> leidas]
    ELSE LET r == crear_proceso_desde_fila(filas[i])
         IN  IF r.excepcion # sin_excepcion
             THEN [excepcion |-> r.excepcion, filas |-> leidas]
             ELSE IF Len(leidas) + 1 > MAX_PROCESOS
             THEN [excepcion |-> ValueError, filas |-> leidas]
             ELSE leer_filas_desde(filas, i + 1, Append(leidas, r.fila))

\* LectorCSV.leer_procesos sobre un archivo que existe: devuelve
\* [excepcion, procesos]
leer_procesos_de_archivo(archivo) ==
    IF ~archivo.columnas_requeridas
    THEN [excepcion |-> ValueError, procesos |-> <<>>]
    ELSE LET r == leer_filas_desde(archivo.filas, 1, <<>>)
         IN  IF r.excepcion # sin_excepcion
             THEN [excepcion |-> r.excepcion, procesos |-> <<>>]
             ELSE IF r.filas = <<>>
             THEN [excepcion |-> ValueError, procesos |-> <<>>]
             ELSE [excepcion |-> sin_excepcion, procesos |-> leer_procesos(r.filas)]

\* el archivo CSV bien formado que tiene esas filas
archivo_de(filas) ==
    [columnas_requeridas |-> TRUE,
     filas |-> [i \in 1..Len(filas) |->
                   [proceso_id |-> CampoTexto,
                    memoria_K |-> CampoEntero(filas[i].tamano),
                    t_arribo_al_sistema |-> CampoEntero(filas[i].tiempo_arribo),
                    tiempo_irrupcion |-> CampoEntero(filas[i].tiempo_irrupcion)]]]

\* campos numericos y filas de los archivos con defectos
CamposNumericos == {CampoAusente, CampoVacio, CampoTexto} \cup {CampoEntero(n) : n \in -1..1}

FilasCrudas ==
    [proceso_id : {CampoAusente, CampoVacio, CampoTexto},
     memoria_K : CamposNumericos,
     t_arribo_al_sistema : CamposNumericos,
     tiempo_irrupcion : CamposNumericos]

FilaCorrecta == [tamano |-> TAMANO_PEQUENO, tiempo_arribo |-> 1, tiempo_irrupcion |-> 1]

\* archivos de una fila cualquiera, sola o antes o despues de una fila
\* correcta; archivos sin las columnas requeridas; archivos de 0, 10 y 11
\* filas correctas
ArchivosCrudos ==
    {[columnas_requeridas |-> c, filas |-> <<f>>] : c \in BOOLEAN, f \in FilasCrudas}
    \cup {[columnas_requeridas |-> TRUE,
           filas |-> <<f>> \o archivo_de(<<FilaCorrecta>>).filas] : f \in FilasCrudas}
    \cup {[columnas_requeridas |-> TRUE,
           filas |-> archivo_de(<<FilaCorrecta>>).filas \o <<f>>] : f \in FilasCrudas}
    \cup {archivo_de([i \in 1..n |-> FilaCorrecta]) :
              n \in {0, MAX_PROCESOS, MAX_PROCESOS + 1}}

ArchivosCSV == {archivo_de(filas) : filas \in Archivos} \cup ArchivosCrudos

(***************************************************************************)
(* Simulador: operadores auxiliares                                        *)
(***************************************************************************)
Indices(procs) == 1..Len(procs)

\* variante: el grado solo cuenta las particiones ocupadas
calcular_grado_sin_suspendidos(parts, suspendidos) ==
    contar_procesos_en_memoria(parts)

\* variante: la particion del sistema operativo cuenta como ocupada
calcular_grado_contando_so(parts, suspendidos) ==
    Cardinality({i \in IdsParticion : es_sistema_operativo[i] \/ parts[i] # None})
        + Len(suspendidos)

\* variante: cada suspendido cuenta dos veces
calcular_grado_suspendidos_doble(parts, suspendidos) ==
    contar_procesos_en_memoria(parts) + 2 * Len(suspendidos)

\* variante: el proceso candidato ya cuenta en el grado
calcular_grado_con_candidato(parts, suspendidos) ==
    contar_procesos_en_memoria(parts) + Len(suspendidos) + 1

\* Simulador._calcular_grado_multiprogramacion_actual
calcular_grado_multiprogramacion_actual(parts, suspendidos) ==
    contar_procesos_en_memoria(parts) + Len(suspendidos)

\* Simulador._hay_procesos_pendientes
hay_procesos_pendientes(procs) == \E p \in Indices(procs) : procs[p].estado # TERMINADO

\* Simulador._procesar_arribos: devuelve [cola_nuevos, procesos]
RECURSIVE procesar_arribos_desde(_, _, _, _)
procesar_arribos_desde(p, nuevos, procs, t) ==
    IF p > Len(procs) THEN [cola_nuevos |-> nuevos, procesos |-> procs]
    ELSE IF procs[p].estado = SIN_ARRIBAR /\ procs[p].tiempo_arribo = t
         THEN procesar_arribos_desde(p + 1, Append(nuevos, p),
                                     [procs EXCEPT ![p].estado = NUEVO], t)
         ELSE procesar_arribos_desde(p + 1, nuevos, procs, t)

\* variante: tambien arriban los procesos del instante siguiente
RECURSIVE procesar_arribos_anticipados_desde(_, _, _, _)
procesar_arribos_anticipados_desde(p, nuevos, procs, t) ==
    IF p > Len(procs) THEN [cola_nuevos |-> nuevos, procesos |-> procs]
    ELSE IF procs[p].estado = SIN_ARRIBAR /\ procs[p].tiempo_arribo <= t + 1
         THEN procesar_arribos_anticipados_desde(p + 1, Append(nuevos, p),
                                                 [procs EXCEPT ![p].estado = NUEVO], t)
         ELSE procesar_arribos_anticipados_desde(p + 1, nuevos, procs, t)

procesar_arribos_anticipados(nuevos, procs, t) ==
    procesar_arribos_anticipados_desde(1, nuevos, procs, t)

procesar_arribos(nuevos, procs, t) == procesar_arribos_desde(1, nuevos, procs, t)

\* variante: la cola de nuevos se recorre en el orden en que quedo
ordenar_cola_nuevos_sin_ordenar(nuevos, procs) == nuevos

\* el sort de _intentar_asignar_memoria_desde_colas (linea 160)
ordenar_cola_nuevos(nuevos, procs) ==
    sort_estable(nuevos, [p \in Indices(procs) |->
                              <<procs[p].tiempo_arribo, procs[p].tiempo_irrupcion>>])

Min(S) == CHOOSE x \in S : \A y \in S : x <= y

\* Simulador._calcular_tiempo_siguiente_evento: conjunto tiempos_posibles
tiempos_posibles(procs, ejecutando, t) ==
    {procs[p].tiempo_arribo : p \in {q \in Indices(procs) :
        procs[q].estado = SIN_ARRIBAR /\ procs[q].tiempo_arribo > t}}
    \cup (IF ejecutando # None THEN {t + procs[ejecutando].tiempo_restante} ELSE {})

\* variante: se toma el evento mas lejano
calcular_tiempo_siguiente_evento_maximo(procs, ejecutando, t) ==
    IF tiempos_posibles(procs, ejecutando, t) # {}
    THEN CHOOSE x \in tiempos_posibles(procs, ejecutando, t) :
             \A y \in tiempos_posibles(procs, ejecutando, t) : x >= y
    ELSE None

\* variante: solo los arribos futuros cuentan como evento
calcular_tiempo_siguiente_evento_solo_arribos(procs, ejecutando, t) ==
    IF tiempos_posibles(procs, None, t) # {}
    THEN Min(tiempos_posibles(procs, None, t))
    ELSE None

calcular_tiempo_siguiente_evento(procs, ejecutando, t) ==
    IF tiempos_posibles(procs, ejecutando, t) # {}
    THEN Min(tiempos_posibles(procs, ejecutando, t))
    ELSE None

\* variante: el elemento no se quita de la lista
pop_sin_quitar(s, i) == s

\* list.pop(i)
pop(s, i) == SubSeq(s, 1, i - 1) \o SubSeq(s, i + 1, Len(s))

(***************************************************************************)
(* Estado inicial: Simulador.__init__                                      *)
(***************************************************************************)
\* Simulador.__init__ de la primera generacion
Simulador_1 ==
    [procesos |-> <<>>,
     particiones |-> [i \in IdsParticion |-> None],
     cola_listos |-> <<>>,
     cola_listos_suspendidos |-> <<>>,
     proceso_ejecutando |-> None,
     cola_nuevos |-> <<>>,
     tiempo_actual |-> 0,
     pc |-> "construido",
     fase |-> "ninguna",
     hay_arribos |-> FALSE,
     proceso_terminado |-> None,
     retorno |-> None,
     mostrado |-> FALSE]

Init ==
    /\ procesos = <<>>
    /\ particiones = [i \in IdsParticion |-> None]
    /\ cola_listos = <<>>
    /\ cola_listos_suspendidos = <<>>
    /\ proceso_ejecutando = None
    /\ cola_nuevos = <<>>
    /\ tiempo_actual = 0
    /\ pc = "construido"
    /\ fase = "ninguna"
    /\ hay_arribos = FALSE
    /\ proceso_terminado = None
    /\ retorno = None
    /\ mostrado = FALSE
    /\ simulador_1 = Simulador_1

planificador_vars == <<cola_listos, cola_listos_suspendidos, proceso_ejecutando>>
locales_vars == <<fase, hay_arribos, proceso_terminado, retorno>>

(***************************************************************************)
(* Simulador.cargar_procesos                                               *)
(***************************************************************************)
\* si leer_procesos lanza una excepcion, cargar_procesos la deja pasar y la
\* corrida termina sin simular (pc = "error", retorno = la excepcion)
cargar_procesos_de(archivo) ==
    /\ pc = "construido"
    /\ LET r == leer_procesos_de_archivo(archivo)
       IN  IF r.excepcion = sin_excepcion
           THEN /\ procesos' = r.procesos
                /\ pc' = "simular"
                /\ retorno' = retorno
           ELSE /\ procesos' = procesos
                /\ pc' = "error"
                /\ retorno' = r.excepcion
    /\ mostrado' = FALSE
    /\ UNCHANGED <<particiones, planificador_vars, cola_nuevos, tiempo_actual, fase,
                   hay_arribos, proceso_terminado>>

cargar_procesos ==
    /\ pc = "construido"
    /\ \E archivo \in ArchivosCSV : cargar_procesos_de(archivo)
    /\ UNCHANGED simulador_1

(***************************************************************************)
(* Simulador.simular, un paso por llamada                                  *)
(***************************************************************************)
\* lineas 272-279: mostrar_estado del estado inicial
simular_mostrar_inicial ==
    /\ pc = "simular"
    /\ pc' = "arribos_iniciales"
    /\ mostrado' = TRUE
    /\ UNCHANGED <<procesos, particiones, planificador_vars, cola_nuevos, tiempo_actual,
                   locales_vars>>
    /\ UNCHANGED simulador_1

\* lineas 281-288: arribos en tiempo 0
simular_arribos_iniciales ==
    /\ pc = "arribos_iniciales"
    /\ IF \E p \in Indices(procesos) :
             procesos[p].estado = SIN_ARRIBAR /\ procesos[p].tiempo_arribo = 0
       THEN LET r == procesar_arribos(cola_nuevos, procesos, tiempo_actual)
            IN  /\ cola_nuevos' = r.cola_nuevos
                /\ procesos' = r.procesos
                /\ fase' = "inicial"
                /\ pc' = "ordenar_nuevos"
       ELSE /\ pc' = "bucle"
            /\ UNCHANGED <<cola_nuevos, procesos, fase>>
    /\ mostrado' = FALSE
    /\ UNCHANGED <<particiones, planificador_vars, tiempo_actual, hay_arribos,
                   proceso_terminado, retorno>>
    /\ UNCHANGED simulador_1

\* _intentar_asignar_memoria_desde_colas, linea 160
intentar_asignar_ordenar ==
    /\ pc = "ordenar_nuevos"
    /\ cola_nuevos' = ordenar_cola_nuevos(cola_nuevos, procesos)
    /\ pc' = "admitir"
    /\ mostrado' = FALSE
    /\ UNCHANGED <<procesos, particiones, planificador_vars, tiempo_actual, locales_vars>>
    /\ UNCHANGED simulador_1

\* lineas 163-171: fin del while (cola vacia o grado alcanzado)
intentar_asignar_salir ==
    /\ pc = "admitir"
    /\ \/ cola_nuevos = <<>>
       \/ calcular_grado_multiprogramacion_actual(particiones, cola_listos_suspendidos)
             >= GRADO_MULTIPROGRAMACION_MAX
    /\ pc' = "seleccionar"
    /\ mostrado' = FALSE
    /\ UNCHANGED <<procesos, particiones, planificador_vars, cola_nuevos, tiempo_actual,
                   locales_vars>>
    /\ UNCHANGED simulador_1

\* linea 174: gestor_memoria.asignar_proceso(cola_nuevos[0])
intentar_asignar_llamar ==
    /\ pc = "admitir"
    /\ cola_nuevos # <<>>
    /\ calcular_grado_multiprogramacion_actual(particiones, cola_listos_suspendidos)
          < GRADO_MULTIPROGRAMACION_MAX
    /\ LET r == asignar_proceso(particiones, procesos, Head(cola_nuevos))
       IN  /\ retorno' = r.ret
           /\ particiones' = r.particiones
           /\ procesos' = r.procesos
    /\ pc' = "admitido"
    /\ mostrado' = FALSE
    /\ UNCHANGED <<planificador_vars, cola_nuevos, tiempo_actual, fase, hay_arribos,
                   proceso_terminado>>
    /\ UNCHANGED simulador_1

\* lineas 175-177: pop(0) y agregar_listo
intentar_asignar_listo ==
    /\ pc = "admitido"
    /\ retorno = TRUE
    /\ LET r == agregar_listo(cola_listos, procesos, Head(cola_nuevos), tiempo_actual)
       IN  /\ cola_listos' = r.cola_listos
           /\ procesos' = r.procesos
    /\ cola_nuevos' = pop(cola_nuevos, 1)
    /\ pc' = "admitir"
    /\ mostrado' = FALSE
    /\ UNCHANGED <<particiones, cola_listos_suspendidos, proceso_ejecutando, tiempo_actual,
                   locales_vars>>
    /\ UNCHANGED simulador_1

\* lineas 178-183: pop(0) y agregar_suspendido
intentar_asignar_suspendido ==
    /\ pc = "admitido"
    /\ retorno = FALSE
    /\ LET r == agregar_suspendido(cola_listos_suspendidos, procesos, Head(cola_nuevos),
                                   tiempo_actual)
       IN  /\ cola_listos_suspendidos' = r.cola_listos_suspendidos
           /\ procesos' = r.procesos
    /\ cola_nuevos' = pop(cola_nuevos, 1)
    /\ pc' = "admitir"
    /\ mostrado' = FALSE
    /\ UNCHANGED <<particiones, cola_listos, proceso_ejecutando, tiempo_actual, locales_vars>>
    /\ UNCHANGED simulador_1

\* lineas 297-319, 360-375 y 391-414: seleccionar_siguiente y mostrar_estado
simular_seleccionar ==
    /\ pc = "seleccionar"
    /\ LET r == seleccionar_siguiente(cola_listos, proceso_ejecutando, procesos, tiempo_actual)
       IN  /\ retorno' = r.ret
           /\ cola_listos' = r.cola_listos
           /\ proceso_ejecutando' = r.proceso_ejecutando
           /\ procesos' = r.procesos
    /\ pc' = IF fase = "finalizacion" /\ hay_arribos THEN "arribos" ELSE "bucle"
    /\ mostrado' = TRUE
    /\ UNCHANGED <<particiones, cola_listos_suspendidos, cola_nuevos, tiempo_actual, fase,
                   hay_arribos, proceso_terminado>>
    /\ UNCHANGED simulador_1

\* linea 321: el while termina porque no quedan procesos pendientes
simular_fin ==
    /\ pc = "bucle"
    /\ ~hay_procesos_pendientes(procesos)
    /\ pc' = "fin"
    /\ mostrado' = FALSE
    /\ UNCHANGED <<procesos, particiones, planificador_vars, cola_nuevos, tiempo_actual,
                   locales_vars>>
    /\ UNCHANGED simulador_1

\* lineas 323-326: break porque no hay siguiente evento
simular_sin_evento ==
    /\ pc = "bucle"
    /\ hay_procesos_pendientes(procesos)
    /\ calcular_tiempo_siguiente_evento(procesos, proceso_ejecutando, tiempo_actual) = None
    /\ pc' = "fin"
    /\ mostrado' = FALSE
    /\ UNCHANGED <<procesos, particiones, planificador_vars, cola_nuevos, tiempo_actual,
                   locales_vars>>
    /\ UNCHANGED simulador_1

\* variante: los arribos se resuelven antes que la finalizacion
rama_siguiente_arribos_primero(termina, arribos) ==
    IF arribos THEN "arribos" ELSE IF termina THEN "finalizar" ELSE "bucle"

\* lineas 347-378: primero la finalizacion, despues los arribos
rama_siguiente(termina, arribos) ==
    IF termina THEN "finalizar" ELSE IF arribos THEN "arribos" ELSE "bucle"

\* variante: se descuenta el instante del evento en vez del intervalo
tiempo_ejecucion_absoluto(tiempo_siguiente, t) == tiempo_siguiente

\* variante: el intervalo descontado incluye tambien el instante del evento
tiempo_ejecucion_con_instante_final(tiempo_siguiente, t) == tiempo_siguiente - t + 1

\* lineas 342-343: tiempo que se descuenta al proceso en ejecucion
tiempo_ejecucion(tiempo_siguiente, t) == tiempo_siguiente - t

\* lineas 323-348: calculo del siguiente evento y avance del reloj
simular_avanzar ==
    /\ pc = "bucle"
    /\ hay_procesos_pendientes(procesos)
    /\ LET tiempo_siguiente ==
               calcular_tiempo_siguiente_evento(procesos, proceso_ejecutando, tiempo_actual)
           arribos == \E p \in Indices(procesos) :
               procesos[p].estado = SIN_ARRIBAR /\ procesos[p].tiempo_arribo = tiempo_siguiente
           proceso_actual == proceso_ejecutando
           proceso_termina ==
               proceso_actual # None
               /\ tiempo_actual + procesos[proceso_actual].tiempo_restante = tiempo_siguiente
           procs1 == IF proceso_actual # None /\ tiempo_actual < tiempo_siguiente
                     THEN [procesos EXCEPT ![proceso_actual].tiempo_restante =
                               @ - tiempo_ejecucion(tiempo_siguiente, tiempo_actual)]
                     ELSE procesos
       IN  /\ tiempo_siguiente # None
           /\ hay_arribos' = arribos
           /\ procesos' = procs1
           /\ tiempo_actual' = tiempo_siguiente
           /\ pc' = rama_siguiente(proceso_termina
                                    /\ procs1[proceso_actual].tiempo_restante <= 0,
                                    arribos)
           /\ fase' = IF pc' = "finalizar" THEN "finalizacion" ELSE "ninguna"
    /\ mostrado' = FALSE
    /\ UNCHANGED <<particiones, planificador_vars, cola_nuevos, proceso_terminado, retorno>>
    /\ UNCHANGED simulador_1

\* linea 349: planificador.finalizar_proceso_actual
simular_finalizar ==
    /\ pc = "finalizar"
    /\ LET r == finalizar_proceso_actual(proceso_ejecutando, procesos, tiempo_actual)
       IN  /\ proceso_terminado' = r.ret
           /\ retorno' = r.ret
           /\ proceso_ejecutando' = r.proceso_ejecutando
           /\ procesos' = r.procesos
    /\ pc' = "liberar"
    /\ mostrado' = FALSE
    /\ UNCHANGED <<particiones, cola_listos, cola_listos_suspendidos, cola_nuevos,
                   tiempo_actual, fase, hay_arribos>>
    /\ UNCHANGED simulador_1

\* linea 350: gestor_memoria.liberar_particion
simular_liberar ==
    /\ pc = "liberar"
    /\ LET r == liberar_particion(particiones, procesos, proceso_terminado)
       IN  /\ retorno' = r.ret
           /\ particiones' = r.particiones
           /\ procesos' = r.procesos
    /\ pc' = "promover"
    /\ mostrado' = FALSE
    /\ UNCHANGED <<planificador_vars, cola_nuevos, tiempo_actual, fase, hay_arribos,
                   proceso_terminado>>
    /\ UNCHANGED simulador_1

\* _promover_suspendidos, lineas 196-199 y 221-223: fin del while
promover_salir ==
    /\ pc = "promover"
    /\ \/ cola_listos_suspendidos = <<>>
       \/ calcular_grado_multiprogramacion_actual(particiones, cola_listos_suspendidos)
             >= GRADO_MULTIPROGRAMACION_MAX
    /\ pc' = "ordenar_nuevos"
    /\ mostrado' = FALSE
    /\ UNCHANGED <<procesos, particiones, planificador_vars, cola_nuevos, tiempo_actual,
                   locales_vars>>
    /\ UNCHANGED simulador_1

\* lineas 202-204: asignar_proceso(cola_listos_suspendidos[0])
promover_llamar ==
    /\ pc = "promover"
    /\ cola_listos_suspendidos # <<>>
    /\ calcular_grado_multiprogramacion_actual(particiones, cola_listos_suspendidos)
          < GRADO_MULTIPROGRAMACION_MAX
    /\ LET r == asignar_proceso(particiones, procesos, Head(cola_listos_suspendidos))
       IN  /\ retorno' = r.ret
           /\ particiones' = r.particiones
           /\ procesos' = r.procesos
    /\ pc' = "promovido"
    /\ mostrado' = FALSE
    /\ UNCHANGED <<planificador_vars, cola_nuevos, tiempo_actual, fase, hay_arribos,
                   proceso_terminado>>
    /\ UNCHANGED simulador_1

\* lineas 205-208: pop(0) y agregar_listo
promover_listo ==
    /\ pc = "promovido"
    /\ retorno = TRUE
    /\ LET r == agregar_listo(cola_listos, procesos, Head(cola_listos_suspendidos),
                              tiempo_actual)
       IN  /\ cola_listos' = r.cola_listos
           /\ procesos' = r.procesos
    /\ cola_listos_suspendidos' = pop(cola_listos_suspendidos, 1)
    /\ pc' = "promover"
    /\ mostrado' = FALSE
    /\ UNCHANGED <<particiones, proceso_ejecutando, cola_nuevos, tiempo_actual, locales_vars>>
    /\ UNCHANGED simulador_1

\* variante: si el primero no entra no se busca otro
promover_buscar_desde_sin_buscar(i, parts, procs, listos, suspendidos, t) ==
    [encontrado |-> FALSE, particiones |-> parts, procesos |-> procs,
     cola_listos |-> listos, cola_listos_suspendidos |-> suspendidos]

\* lineas 212-219: el for sobre cola_listos_suspendidos[1:]; i es la posicion
\* (desde 1) dentro de la cola. Devuelve [encontrado, particiones, procesos,
\* cola_listos, cola_listos_suspendidos]
RECURSIVE promover_buscar_desde(_, _, _, _, _, _)
promover_buscar_desde(i, parts, procs, listos, suspendidos, t) ==
    IF i > Len(suspendidos)
    THEN [encontrado |-> FALSE, particiones |-> parts, procesos |-> procs,
          cola_listos |-> listos, cola_listos_suspendidos |-> suspendidos]
    ELSE LET r == asignar_proceso(parts, procs, suspendidos[i])
         IN  IF r.ret
             THEN LET a == agregar_listo(listos, r.procesos, suspendidos[i], t)
                  IN  [encontrado |-> TRUE, particiones |-> r.particiones,
                       procesos |-> a.procesos, cola_listos |-> a.cola_listos,
                       cola_listos_suspendidos |-> pop(suspendidos, i)]
             ELSE promover_buscar_desde(i + 1, r.particiones, r.procesos, listos,
                                        suspendidos, t)

\* lineas 209-223: el primero no entra; buscar el siguiente que entre
promover_buscar ==
    /\ pc = "promovido"
    /\ retorno = FALSE
    /\ LET r == promover_buscar_desde(2, particiones, procesos, cola_listos,
                                      cola_listos_suspendidos, tiempo_actual)
       IN  /\ particiones' = r.particiones
           /\ procesos' = r.procesos
           /\ cola_listos' = r.cola_listos
           /\ cola_listos_suspendidos' = r.cola_listos_suspendidos
           /\ retorno' = r.encontrado
           /\ pc' = IF r.encontrado THEN "promover" ELSE "ordenar_nuevos"
    /\ mostrado' = FALSE
    /\ UNCHANGED <<proceso_ejecutando, cola_nuevos, tiempo_actual, fase, hay_arribos,
                   proceso_terminado>>
    /\ UNCHANGED simulador_1

\* lineas 378-379: _procesar_arribos en el bucle principal
simular_arribos ==
    /\ pc = "arribos"
    /\ LET r == procesar_arribos(cola_nuevos, procesos, tiempo_actual)
       IN  /\ cola_nuevos' = r.cola_nuevos
           /\ procesos' = r.procesos
    /\ fase' = "arribos"
    /\ pc' = "ordenar_nuevos"
    /\ mostrado' = FALSE
    /\ UNCHANGED <<particiones, planificador_vars, tiempo_actual, hay_arribos,
                   proceso_terminado, retorno>>
    /\ UNCHANGED simulador_1

Next ==
    \/ cargar_procesos
    \/ simular_mostrar_inicial
    \/ simular_arribos_iniciales
    \/ intentar_asignar_ordenar
    \/ intentar_asignar_salir
    \/ intentar_asignar_llamar
    \/ intentar_asignar_listo
    \/ intentar_asignar_suspendido
    \/ simular_seleccionar
    \/ simular_fin
    \/ simular_sin_evento
    \/ simular_avanzar
    \/ simular_finalizar
    \/ simular_liberar
    \/ promover_salir
    \/ promover_llamar
    \/ promover_listo
    \/ promover_buscar
    \/ simular_arribos

Spec == Init /\ [][Next]_vars

\* los pasos de simular (todo Next menos la carga del archivo)
simular ==
    \/ simular_mostrar_inicial
    \/ simular_arribos_iniciales
    \/ intentar_asignar_ordenar
    \/ intentar_asignar_salir
    \/ intentar_asignar_llamar
    \/ intentar_asignar_listo
    \/ intentar_asignar_suspendido
    \/ simular_seleccionar
    \/ simular_fin
    \/ simular_sin_evento
    \/ simular_avanzar
    \/ simular_finalizar
    \/ simular_liberar
    \/ promover_salir
    \/ promover_llamar
    \/ promover_listo
    \/ promover_buscar
    \/ simular_arribos

\* simular corre en un solo hilo y nunca espera: una vez llamado, mientras
\* tenga un paso habilitado, el paso se da
SpecJusto == Init /\ [][Next]_vars /\ WF_vars(simular)

(***************************************************************************)
(* Primera generacion del motor (src/simulador.py). Su GestorMemoria y su  *)
(* Planificador se toman de la especificacion: un unico asignador Best-Fit *)
(* sobre la misma tabla de particiones y un unico planificador SRTF, con   *)
(* las mismas operaciones que los de la generacion actual.                 *)
(***************************************************************************)
grado_multiprogramacion_1 == GRADO_MULTIPROGRAMACION_MAX

contar_procesos_en_memoria_1(parts) == contar_procesos_en_memoria(parts)

asignar_proceso_1(parts, procs, p) == asignar_proceso(parts, procs, p)

liberar_particion_1(parts, procs, p) == liberar_particion(parts, procs, p)

agregar_listo_1(cola, procs, p, t) == agregar_listo(cola, procs, p, t)

agregar_suspendido_1(cola, procs, p, t) == agregar_suspendido(cola, procs, p, t)

seleccionar_siguiente_1(cola, ejecutando, procs, t) ==
    seleccionar_siguiente(cola, ejecutando, procs, t)

finalizar_proceso_actual_1(ejecutando, procs, t) ==
    finalizar_proceso_actual(ejecutando, procs, t)

\* Simulador.cargar_procesos (lineas 39-50): LectorCSV.leer_procesos lee igual
\* en las dos generaciones; todos los procesos quedan SIN_ARRIBAR
cargar_procesos_1_de(archivo) ==
    /\ simulador_1.pc = "construido"
    /\ LET r == leer_procesos_de_archivo(archivo)
       IN  simulador_1' =
               IF r.excepcion = sin_excepcion
               THEN [simulador_1 EXCEPT
                        !.procesos = [p \in Indices(r.procesos) |->
                                         [r.procesos[p] EXCEPT !.estado = SIN_ARRIBAR]],
                        !.pc = "simular"]
               ELSE [simulador_1 EXCEPT !.pc = "error", !.retorno = r.excepcion]

cargar_procesos_1 ==
    /\ simulador_1.pc = "construido"
    /\ \E archivo \in ArchivosCSV : cargar_procesos_1_de(archivo)
    /\ UNCHANGED simulador_vars

\* lineas 249-252: mostrar_estado del estado inicial
simular_mostrar_inicial_1 ==
    /\ simulador_1.pc = "simular"
    /\ simulador_1' = [simulador_1 EXCEPT !.pc = "arribos_iniciales", !.mostrado = TRUE]
    /\ UNCHANGED simulador_vars

\* lineas 256-263: arribos en tiempo 0
simular_arribos_iniciales_1 ==
    /\ simulador_1.pc = "arribos_iniciales"
    /\ simulador_1' =
           IF \E p \in Indices(simulador_1.procesos) :
                  /\ simulador_1.procesos[p].estado = SIN_ARRIBAR
                  /\ simulador_1.procesos[p].tiempo_arribo = 0
           THEN LET r == procesar_arribos(simulador_1.cola_nuevos, simulador_1.procesos,
                                          simulador_1.tiempo_actual)
                IN  [simulador_1 EXCEPT !.cola_nuevos = r.cola_nuevos,
                                        !.procesos = r.procesos,
                                        !.fase = "inicial",
                                        !.pc = "admitir",
                                        !.mostrado = FALSE]
           ELSE [simulador_1 EXCEPT !.pc = "bucle", !.mostrado = FALSE]
    /\ UNCHANGED simulador_vars

\* lineas 138-145: con el limite de procesos en memoria alcanzado, todos los
\* nuevos pasan a suspendidos; devuelve [cola_listos_suspendidos, procesos]
RECURSIVE suspender_nuevos_1(_, _, _, _)
suspender_nuevos_1(nuevos, suspendidos, procs, t) ==
    IF nuevos = <<>>
    THEN [cola_listos_suspendidos |-> suspendidos, procesos |-> procs]
    ELSE LET r == agregar_suspendido_1(suspendidos, procs, Head(nuevos), t)
         IN  suspender_nuevos_1(Tail(nuevos), r.cola_listos_suspendidos, r.procesos, t)

\* _intentar_asignar_memoria_desde_colas, lineas 136 y 160: fin del while
intentar_asignar_salir_1 ==
    /\ simulador_1.pc = "admitir"
    /\ simulador_1.cola_nuevos = <<>>
    /\ simulador_1' = [simulador_1 EXCEPT !.pc = "seleccionar", !.mostrado = FALSE]
    /\ UNCHANGED simulador_vars

\* lineas 136-150: prueba del limite y gestor_memoria.asignar_proceso(cola_nuevos[0])
intentar_asignar_llamar_1 ==
    /\ simulador_1.pc = "admitir"
    /\ simulador_1.cola_nuevos # <<>>
    /\ simulador_1' =
           IF contar_procesos_en_memoria_1(simulador_1.particiones)
                  >= grado_multiprogramacion_1
           THEN LET r == suspender_nuevos_1(simulador_1.cola_nuevos,
                                            simulador_1.cola_listos_suspendidos,
                                            simulador_1.procesos,
                                            simulador_1.tiempo_actual)
                IN  [simulador_1 EXCEPT
                         !.cola_listos_suspendidos = r.cola_listos_suspendidos,
                         !.procesos = r.procesos,
                         !.cola_nuevos = <<>>,
                         !.pc = "seleccionar",
                         !.mostrado = FALSE]
           ELSE LET r == asignar_proceso_1(simulador_1.particiones, simulador_1.procesos,
                                           Head(simulador_1.cola_nuevos))
                IN  [simulador_1 EXCEPT !.retorno = r.ret,
                                        !.particiones = r.particiones,
                                        !.procesos = r.procesos,
                                        !.pc = "admitido",
                                        !.mostrado = FALSE]
    /\ UNCHANGED simulador_vars

\* lineas 150-153: pop(0) y agregar_listo
intentar_asignar_listo_1 ==
    /\ simulador_1.pc = "admitido"
    /\ simulador_1.retorno = TRUE
    /\ LET r == agregar_listo_1(simulador_1.cola_listos, simulador_1.procesos,
                                Head(simulador_1.cola_nuevos), simulador_1.tiempo_actual)
       IN  simulador_1' = [simulador_1 EXCEPT
                               !.cola_listos = r.cola_listos,
                               !.procesos = r.procesos,
                               !.cola_nuevos = pop(simulador_1.cola_nuevos, 1),
                               !.pc = "admitir"]
    /\ UNCHANGED simulador_vars

\* lineas 154-158: pop(0) y agregar_suspendido
intentar_asignar_suspendido_1 ==
    /\ simulador_1.pc = "admitido"
    /\ simulador_1.retorno = FALSE
    /\ LET r == agregar_suspendido_1(simulador_1.cola_listos_suspendidos,
                                     simulador_1.procesos,
                                     Head(simulador_1.cola_nuevos),
                                     simulador_1.tiempo_actual)
       IN  simulador_1' = [simulador_1 EXCEPT
                               !.cola_listos_suspendidos = r.cola_listos_suspendidos,
                               !.procesos = r.procesos,
                               !.cola_nuevos = pop(simulador_1.cola_nuevos, 1),
                               !.pc = "admitir"]
    /\ UNCHANGED simulador_vars

\* lineas 265-282, 319-328 y 338-356: seleccionar_siguiente y mostrar_estado
simular_seleccionar_1 ==
    /\ simulador_1.pc = "seleccionar"
    /\ LET r == seleccionar_siguiente_1(simulador_1.cola_listos,
                                        simulador_1.proceso_ejecutando,
                                        simulador_1.procesos, simulador_1.tiempo_actual)
       IN  simulador_1' = [simulador_1 EXCEPT
                               !.retorno = r.ret,
                               !.cola_listos = r.cola_listos,
                               !.proceso_ejecutando = r.proceso_ejecutando,
                               !.procesos = r.procesos,
                               !.pc = IF simulador_1.fase = "finalizacion"
                                         /\ simulador_1.hay_arribos
                                      THEN "arribos" ELSE "bucle",
                               !.mostrado = TRUE]
    /\ UNCHANGED simulador_vars

\* linea 284: el while termina porque no quedan procesos pendientes
simular_fin_1 ==
    /\ simulador_1.pc = "bucle"
    /\ ~hay_procesos_pendientes(simulador_1.procesos)
    /\ simulador_1' = [simulador_1 EXCEPT !.pc = "fin", !.mostrado = FALSE]
    /\ UNCHANGED simulador_vars

\* lineas 286-289: break porque no hay siguiente evento
simular_sin_evento_1 ==
    /\ simulador_1.pc = "bucle"
    /\ hay_procesos_pendientes(simulador_1.procesos)
    /\ calcular_tiempo_siguiente_evento(simulador_1.procesos,
                                        simulador_1.proceso_ejecutando,
                                        simulador_1.tiempo_actual) = None
    /\ simulador_1' = [simulador_1 EXCEPT !.pc = "fin", !.mostrado = FALSE]
    /\ UNCHANGED simulador_vars

\* lineas 286-311: calculo del siguiente evento y avance del reloj
simular_avanzar_1 ==
    /\ simulador_1.pc = "bucle"
    /\ hay_procesos_pendientes(simulador_1.procesos)
    /\ LET tiempo_siguiente ==
               calcular_tiempo_siguiente_evento(simulador_1.procesos,
                                                simulador_1.proceso_ejecutando,
                                                simulador_1.tiempo_actual)
           arribos == \E p \in Indices(simulador_1.procesos) :
               /\ simulador_1.procesos[p].estado = SIN_ARRIBAR
               /\ simulador_1.procesos[p].tiempo_arribo = tiempo_siguiente
           proceso_actual == simulador_1.proceso_ejecutando
           proceso_termina ==
               proceso_actual # None
               /\ simulador_1.tiempo_actual + simulador_1.procesos[proceso_actual].tiempo_restante
                      = tiempo_siguiente
           procs1 == IF proceso_actual # None /\ simulador_1.tiempo_actual < tiempo_siguiente
                     THEN [simulador_1.procesos EXCEPT ![proceso_actual].tiempo_restante =
                               @ - tiempo_ejecucion(tiempo_siguiente,
                                                    simulador_1.tiempo_actual)]
                     ELSE simulador_1.procesos
           rama == rama_siguiente(proceso_termina
                                      /\ procs1[proceso_actual].tiempo_restante <= 0,
                                  arribos)
       IN  /\ tiempo_siguiente # None
           /\ simulador_1' = [simulador_1 EXCEPT
                                  !.hay_arribos = arribos,
                                  !.procesos = procs1,
                                  !.tiempo_actual = tiempo_siguiente,
                                  !.pc = rama,
                                  !.fase = IF rama = "finalizar" THEN "finalizacion"
                                           ELSE "ninguna",
                                  !.mostrado = FALSE]
    /\ UNCHANGED simulador_vars

\* linea 312: planificador.finalizar_proceso_actual
simular_finalizar_1 ==
    /\ simulador_1.pc = "finalizar"
    /\ LET r == finalizar_proceso_actual_1(simulador_1.proceso_ejecutando,
                                           simulador_1.procesos, simulador_1.tiempo_actual)
       IN  simulador_1' = [simulador_1 EXCEPT
                               !.proceso_terminado = r.ret,
                               !.retorno = r.ret,
                               !.proceso_ejecutando = r.proceso_ejecutando,
                               !.procesos = r.procesos,
                               !.pc = "liberar"]
    /\ UNCHANGED simulador_vars

\* linea 313: gestor_memoria.liberar_particion
simular_liberar_1 ==
    /\ simulador_1.pc = "liberar"
    /\ LET r == liberar_particion_1(simulador_1.particiones, simulador_1.procesos,
                                    simulador_1.proceso_terminado)
       IN  simulador_1' = [simulador_1 EXCEPT
                               !.retorno = r.ret,
                               !.particiones = r.particiones,
                               !.procesos = r.procesos,
                               !.pc = "promover"]
    /\ UNCHANGED simulador_vars

\* _promover_suspendidos, lineas 171-174: fin del while (cola vacia o limite
\* de procesos en memoria alcanzado)
promover_salir_1 ==
    /\ simulador_1.pc = "promover"
    /\ \/ simulador_1.cola_listos_suspendidos = <<>>
       \/ contar_procesos_en_memoria_1(simulador_1.particiones)
              >= grado_multiprogramacion_1
    /\ simulador_1' = [simulador_1 EXCEPT !.pc = "seleccionar"]
    /\ UNCHANGED simulador_vars

\* lineas 171-179: asignar_proceso(cola_listos_suspendidos[0])
promover_llamar_1 ==
    /\ simulador_1.pc = "promover"
    /\ simulador_1.cola_listos_suspendidos # <<>>
    /\ contar_procesos_en_memoria_1(simulador_1.particiones) < grado_multiprogramacion_1
    /\ LET r == asignar_proceso_1(simulador_1.particiones, simulador_1.procesos,
                                  Head(simulador_1.cola_listos_suspendidos))
       IN  simulador_1' = [simulador_1 EXCEPT
                               !.retorno = r.ret,
                               !.particiones = r.particiones,
                               !.procesos = r.procesos,
                               !.pc = "promovido"]
    /\ UNCHANGED simulador_vars

\* lineas 179-183: pop(0) y agregar_listo
promover_listo_1 ==
    /\ simulador_1.pc = "promovido"
    /\ simulador_1.retorno = TRUE
    /\ LET r == agregar_listo_1(simulador_1.cola_listos, simulador_1.procesos,
                                Head(simulador_1.cola_listos_suspendidos),
                                simulador_1.tiempo_actual)
       IN  simulador_1' = [simulador_1 EXCEPT
                               !.cola_listos = r.cola_listos,
                               !.procesos = r.procesos,
                               !.cola_listos_suspendidos =
                                   pop(simulador_1.cola_listos_suspendidos, 1),
                               !.pc = "promover"]
    /\ UNCHANGED simulador_vars

\* lineas 188-194: el for sobre cola_listos_suspendidos[1:]
RECURSIVE promover_buscar_desde_1(_, _, _, _, _, _)
promover_buscar_desde_1(i, parts, procs, listos, suspendidos, t) ==
    IF i > Len(suspendidos)
    THEN [encontrado |-> FALSE, particiones |-> parts, procesos |-> procs,
          cola_listos |-> listos, cola_listos_suspendidos |-> suspendidos]
    ELSE LET r == asignar_proceso_1(parts, procs, suspendidos[i])
         IN  IF r.ret
             THEN LET a == agregar_listo_1(listos, r.procesos, suspendidos[i], t)
                  IN  [encontrado |-> TRUE, particiones |-> r.particiones,
                       procesos |-> a.procesos, cola_listos |-> a.cola_listos,
                       cola_listos_suspendidos |-> pop(suspendidos, i)]
             ELSE promover_buscar_desde_1(i + 1, r.particiones, r.procesos, listos,
                                          suspendidos, t)

\* lineas 184-198: el primero no entra; buscar el siguiente que entre
promover_buscar_1 ==
    /\ simulador_1.pc = "promovido"
    /\ simulador_1.retorno = FALSE
    /\ LET r == promover_buscar_desde_1(2, simulador_1.particiones, simulador_1.procesos,
                                        simulador_1.cola_listos,
                                        simulador_1.cola_listos_suspendidos,
                                        simulador_1.tiempo_actual)
       IN  simulador_1' = [simulador_1 EXCEPT
                               !.particiones = r.particiones,
                               !.procesos = r.procesos,
                               !.cola_listos = r.cola_listos,
                               !.cola_listos_suspendidos = r.cola_listos_suspendidos,
                               !.retorno = r.encontrado,
                               !.pc = IF r.encontrado THEN "promover" ELSE "seleccionar"]
    /\ UNCHANGED simulador_vars

\* lineas 331-332: _procesar_arribos en el bucle principal
simular_arribos_1 ==
    /\ simulador_1.pc = "arribos"
    /\ LET r == procesar_arribos(simulador_1.cola_nuevos, simulador_1.procesos,
                                 simulador_1.tiempo_actual)
       IN  simulador_1' = [simulador_1 EXCEPT
                               !.cola_nuevos = r.cola_nuevos,
                               !.procesos = r.procesos,
                               !.fase = "arribos",
                               !.pc = "admitir",
                               !.mostrado = FALSE]
    /\ UNCHANGED simulador_vars

\* los pasos de simular de la primera generacion
simular_1 ==
    \/ simular_mostrar_inicial_1
    \/ simular_arribos_iniciales_1
    \/ intentar_asignar_salir_1
    \/ intentar_asignar_llamar_1
    \/ intentar_asignar_listo_1
    \/ intentar_asignar_suspendido_1
    \/ simular_seleccionar_1
    \/ simular_fin_1
    \/ simular_sin_evento_1
    \/ simular_avanzar_1
    \/ simular_finalizar_1
    \/ simular_liberar_1
    \/ promover_salir_1
    \/ promover_llamar_1
    \/ promover_listo_1
    \/ promover_buscar_1
    \/ simular_arribos_1

Next_1 ==
    \/ cargar_procesos_1
    \/ simular_1

\* una corrida del motor de la primera generacion
Spec_1 == Init /\ [][Next_1]_vars

(***************************************************************************)
(* Las dos generaciones lado a lado sobre el mismo archivo: el motor actual *)
(* corre hasta su siguiente estado mostrado y el de la primera generacion   *)
(* lo alcanza despues.                                                      *)
(***************************************************************************)
\* archivos de GRADO_MULTIPROGRAMACION_MAX procesos con arribos 0, 1, 2, ...
\* todos distintos; irrupciones de 1 o de tantas unidades como procesos
IrrupcionesDistintos == {1, GRADO_MULTIPROGRAMACION_MAX}

ArchivosDistintos ==
    {[i \in 1..GRADO_MULTIPROGRAMACION_MAX |->
        [tamano |-> tam[i], tiempo_arribo |-> i - 1, tiempo_irrupcion |-> b[i]]] :
        tam \in [1..GRADO_MULTIPROGRAMACION_MAX -> TamanosCarga],
        b \in [1..GRADO_MULTIPROGRAMACION_MAX -> IrrupcionesDistintos]}

ArchivosLadoALado ==
    {archivo_de(filas) : filas \in ArchivosGenerales \cup Escenarios \cup ArchivosDistintos}
    \cup ArchivosCrudos

\* el Simulador de la generacion actual como registro
simulador_actual ==
    [procesos |-> procesos, particiones |-> particiones, cola_listos |-> cola_listos,
     cola_listos_suspendidos |-> cola_listos_suspendidos,
     proceso_ejecutando |-> proceso_ejecutando, cola_nuevos |-> cola_nuevos,
     tiempo_actual |-> tiempo_actual, pc |-> pc, fase |-> fase,
     hay_arribos |-> hay_arribos, proceso_terminado |-> proceso_terminado,
     retorno |-> retorno, mostrado |-> mostrado]

\* el motor esta detenido en un estado mostrado, antes de simular o al final
en_punto(e) == e.mostrado \/ e.pc \in {"construido", "simular", "fin", "error"}

\* instante y lugar de simular en que esta el motor
firma(e) == <<e.pc, e.tiempo_actual, e.fase, e.mostrado>>

\* lo que mostrar_estado muestra de un motor, y su lugar en simular
estado_mostrado(e) ==
    [procesos |-> e.procesos, particiones |-> e.particiones,
     cola_listos |-> e.cola_listos,
     cola_listos_suspendidos |-> e.cola_listos_suspendidos,
     proceso_ejecutando |-> e.proceso_ejecutando, cola_nuevos |-> e.cola_nuevos,
     tiempo_actual |-> e.tiempo_actual, pc |-> e.pc, fase |-> e.fase]

\* Simulador.ejecutar de los dos motores con la misma ruta_archivo
cargar_procesos_lado_a_lado ==
    /\ pc = "construido"
    /\ simulador_1.pc = "construido"
    /\ \E archivo \in ArchivosLadoALado :
           /\ cargar_procesos_de(archivo)
           /\ cargar_procesos_1_de(archivo)

\* un paso del motor actual hacia su siguiente estado mostrado
paso_actual ==
    /\ ~en_punto(simulador_actual) \/ firma(simulador_actual) = firma(simulador_1)
    /\ simular

\* un paso del motor de la primera generacion hasta alcanzar al actual
paso_1 ==
    /\ en_punto(simulador_actual)
    /\ firma(simulador_actual) # firma(simulador_1)
    /\ simular_1

NextLadoALado ==
    \/ cargar_procesos_lado_a_lado
    \/ paso_actual
    \/ paso_1

SpecLadoALado == Init /\ [][NextLadoALado]_vars

(***************************************************************************)
(* Propiedades                                                             *)
(***************************************************************************)
ElemsDe(s) == {s[i] : i \in 1..Len(s)}

\* C1: en cada estado mostrado por mostrar_estado, particiones ocupadas (sin
\* la del SO) + largo de la cola de suspendidos <= 5.
C1_GradoMultiprogramacion ==
    mostrado =>
        contar_procesos_en_memoria(particiones) + Len(cola_listos_suspendidos)
            <= GRADO_MULTIPROGRAMACION_MAX

\* el grado llega a 5 y queda un proceso NUEVO esperando
C1_Witness ==
    /\ mostrado
    /\ contar_procesos_en_memoria(particiones) + Len(cola_listos_suspendidos)
           = GRADO_MULTIPROGRAMACION_MAX
    /\ cola_nuevos # <<>>

\* C2: en cada estado mostrado a lo sumo un proceso esta en EJECUCION y es
\* exactamente proceso_ejecutando; ninguno si proceso_ejecutando es None.
C2_UnSoloEjecutando ==
    mostrado =>
        \A p \in Indices(procesos) :
            (procesos[p].estado = EJECUCION) <=> (p = proceso_ejecutando)

\* un proceso en ejecucion junto a otro que fue preemptado y espera en listos
C2_Witness ==
    /\ mostrado
    /\ proceso_ejecutando # None
    /\ \E q \in ElemsDe(cola_listos) :
           /\ procesos[q].tiempo_restante < procesos[q].tiempo_irrupcion
           /\ procesos[q].estado = LISTO

\* C3: para todo proceso 0 <= tiempo_restante <= tiempo_irrupcion y
\* tiempo_restante no aumenta de un paso al siguiente.
C3_TiempoRestante ==
    [][\A p \in Indices(procesos') :
          /\ 0 <= procesos'[p].tiempo_restante
          /\ procesos'[p].tiempo_restante <= procesos'[p].tiempo_irrupcion
          /\ p \in Indices(procesos) =>
                 procesos'[p].tiempo_restante <= procesos[p].tiempo_restante]_vars

\* el salto de tiempo dejo a un proceso a medio ejecutar cuando el reloj ya
\* no esta en 0
C3_Witness ==
    /\ tiempo_actual > 0
    /\ proceso_ejecutando # None
    /\ procesos[proceso_ejecutando].tiempo_restante > 0
    /\ procesos[proceso_ejecutando].tiempo_restante
           < procesos[proceso_ejecutando].tiempo_irrupcion
    /\ pc = "arribos"

\* C4: si seleccionar_siguiente se llama con un proceso en ejecucion y algun
\* proceso de cola_listos tiene tiempo_restante estrictamente menor, el que
\* ejecutaba pasa a LISTO y vuelve a cola_listos y la cabeza de la cola (de
\* tiempo_restante minimo) pasa a ejecutar; despues de toda llamada ningun
\* proceso de cola_listos tiene tiempo_restante menor que el que ejecuta.
C4_PreemptionSRTF ==
    [][pc = "seleccionar" =>
          /\ (/\ proceso_ejecutando # None
              /\ \E q \in ElemsDe(cola_listos) :
                     procesos[q].tiempo_restante
                         < procesos[proceso_ejecutando].tiempo_restante)
             => /\ procesos'[proceso_ejecutando].estado = LISTO
                /\ proceso_ejecutando \in ElemsDe(cola_listos')
                /\ proceso_ejecutando' = Head(cola_listos)
                /\ \A q \in ElemsDe(cola_listos) :
                       procesos[Head(cola_listos)].tiempo_restante
                           <= procesos[q].tiempo_restante
                /\ procesos'[proceso_ejecutando'].estado = EJECUCION
          /\ proceso_ejecutando' = None => cola_listos' = <<>>
          /\ proceso_ejecutando' # None =>
                 \A q \in ElemsDe(cola_listos') :
                     procesos'[q].tiempo_restante
                         >= procesos'[proceso_ejecutando'].tiempo_restante]_vars

\* estado mostrado justo despues de una preemption: el preemptado entro a
\* LISTO en este instante con parte de su rafaga ya ejecutada
C4_Witness ==
    /\ mostrado
    /\ proceso_ejecutando # None
    /\ \E q \in ElemsDe(cola_listos) :
           /\ procesos[q].tiempo_restante < procesos[q].tiempo_irrupcion
           /\ procesos[q].ultimo_tiempo_espera_inicio = tiempo_actual
           /\ procesos[q].tiempo_restante
                  > procesos[proceso_ejecutando].tiempo_restante

\* C5: si seleccionar_siguiente se llama con un proceso en ejecucion y el
\* minimo tiempo_restante de cola_listos es mayor o igual al del que ejecuta
\* (o la cola esta vacia), el proceso en ejecucion y cola_listos no cambian y
\* se devuelve el proceso en ejecucion.
C5_EmpateNoPreempta ==
    [][(/\ pc = "seleccionar"
        /\ proceso_ejecutando # None
        /\ \A q \in ElemsDe(cola_listos) :
               procesos[q].tiempo_restante
                   >= procesos[proceso_ejecutando].tiempo_restante)
       => /\ proceso_ejecutando' = proceso_ejecutando
          /\ cola_listos' = cola_listos
          /\ procesos' = procesos
          /\ retorno' = proceso_ejecutando]_vars

\* estado mostrado tras una llamada con empate: un proceso recien llegado a
\* LISTO iguala el tiempo_restante del que ya venia ejecutando
C5_Witness ==
    /\ mostrado
    /\ proceso_ejecutando # None
    /\ procesos[proceso_ejecutando].tiempo_restante
           < procesos[proceso_ejecutando].tiempo_irrupcion
    /\ \E q \in ElemsDe(cola_listos) :
           /\ procesos[q].tiempo_llegada_listo = tiempo_actual
           /\ procesos[q].tiempo_restante
                  = procesos[proceso_ejecutando].tiempo_restante

\* C6: para toda entrada aceptada por el lector, simular solo sale del bucle
\* principal cuando todos los procesos estan TERMINADO:
\* _calcular_tiempo_siguiente_evento nunca devuelve None mientras queda un
\* proceso sin terminar.
C6_SoloSaleConTodosTerminados ==
    /\ pc = "fin" => \A p \in Indices(procesos) : procesos[p].estado = TERMINADO
    /\ (pc = "bucle" /\ hay_procesos_pendientes(procesos)) =>
           calcular_tiempo_siguiente_evento(procesos, proceso_ejecutando, tiempo_actual)
               # None

\* C7: cuando el proceso en ejecucion termina en el mismo instante t en que
\* arriban otros, la finalizacion se resuelve primero: durante toda la rama de
\* finalizacion los que arriban en t siguen SIN_ARRIBAR, y cuando se llega a
\* procesar los arribos ningun proceso agotado sigue en EJECUCION y el que
\* termino en t ya esta TERMINADO, sin particion, con el estado ya mostrado.
C7_FinalizacionAntesDeArribos ==
    /\ fase = "finalizacion" =>
           \A p \in Indices(procesos) :
               procesos[p].tiempo_arribo = tiempo_actual =>
                   procesos[p].estado = SIN_ARRIBAR
    /\ pc = "arribos" =>
           \A q \in Indices(procesos) :
               ~(procesos[q].estado = EJECUCION /\ procesos[q].tiempo_restante <= 0)
    /\ (pc = "arribos" /\ fase = "finalizacion") =>
           /\ mostrado
           /\ procesos[proceso_terminado].estado = TERMINADO
           /\ procesos[proceso_terminado].tiempo_finalizacion = tiempo_actual
           /\ procesos[proceso_terminado].particion_asignada = None
           /\ \A i \in IdsParticion : particiones[i] # proceso_terminado

\* un proceso que solo entra en la particion de 250 KB arriba en t y queda
\* en memoria en t, el mismo instante en que termino otro que solo entraba
\* en esa particion
C7_Witness ==
    \E p, q \in Indices(procesos) :
        /\ procesos[q].estado = TERMINADO
        /\ procesos[q].tiempo_finalizacion = tiempo_actual
        /\ procesos[q].tamano > TAMANO_MEDIANO
        /\ procesos[p].tiempo_arribo = tiempo_actual
        /\ procesos[p].tamano > TAMANO_MEDIANO
        /\ procesos[p].particion_asignada # None
        /\ particiones[procesos[p].particion_asignada] = p

\* particiones no-SO libres donde entra un proceso de ese tamano
candidatas(parts, tamano) ==
    {i \in IdsParticion :
        ~es_sistema_operativo[i] /\ parts[i] = None /\ tamano_particion[i] >= tamano}

TamanosPrueba ==
    Tamanos \cup {tamano_particion[i] + d : i \in IdsParticion, d \in {0, 1}}

\* C8: best_fit devuelve, entre las particiones no-SO libres con tamano >= al
\* del proceso, la de menor desperdicio (la de menor id si hay empate), y None
\* exactamente cuando no hay ninguna.
C8_BestFit ==
    \A tamano \in TamanosPrueba :
        LET r == best_fit(particiones, tamano)
            c == candidatas(particiones, tamano)
        IN  /\ (r = None) <=> (c = {})
            /\ r # None =>
                   /\ r \in c
                   /\ \A j \in c :
                          /\ tamano_particion[r] - tamano <= tamano_particion[j] - tamano
                          /\ tamano_particion[j] = tamano_particion[r] => r <= j

\* con las tres particiones libres el proceso quedo en la mas chica
C8_Witness ==
    /\ pc = "admitido"
    /\ retorno = TRUE
    /\ procesos[Head(cola_nuevos)].particion_asignada = 3
    /\ Cardinality(candidatas(particiones, procesos[Head(cola_nuevos)].tamano)) = 2

\* proceso con el que simular llama a asignar_proceso en este paso
proceso_de_la_llamada ==
    IF pc = "admitir" THEN Head(cola_nuevos) ELSE Head(cola_listos_suspendidos)

es_llamada_asignar ==
    /\ pc \in {"admitir", "promover"}
    /\ pc' \in {"admitido", "promovido"}

\* C9: asignar_proceso devuelve False y no cambia ninguna particion ni el
\* proceso (particion_asignada, estado, tiempo_restante) cuando las
\* particiones ocupadas ya igualan el grado de multiprogramacion o cuando no
\* hay particion libre donde entre.
C9_AsignarFallaSinEfectos ==
    [][(/\ es_llamada_asignar
        /\ \/ contar_procesos_en_memoria(particiones) >= GRADO_MULTIPROGRAMACION_MAX
           \/ candidatas(particiones, procesos[proceso_de_la_llamada].tamano) = {})
       => /\ retorno' = FALSE
          /\ particiones' = particiones
          /\ procesos' = procesos]_vars

\* asignar_proceso fallo habiendo una particion libre (el proceso no entra)
C9_Witness ==
    /\ pc = "admitido"
    /\ retorno = FALSE
    /\ \E i \in IdsParticion : esta_libre(particiones, i)
    /\ procesos[Head(cola_nuevos)].estado = NUEVO

\* C10: cuando asignar_proceso devuelve True, exactamente la particion que
\* elige best_fit recibe el proceso, el proceso apunta a esa particion, las
\* demas particiones y procesos no cambian y tiempo_restante no cambia.
C10_AsignarExitoMarco ==
    [][(es_llamada_asignar /\ retorno' = TRUE)
       => LET p == proceso_de_la_llamada
              k == best_fit(particiones, procesos[p].tamano)
          IN  /\ k # None
              /\ particiones' = [particiones EXCEPT ![k] = p]
              /\ procesos' = [procesos EXCEPT ![p].particion_asignada = k]]_vars

\* un suspendido obtuvo particion al ser promovido, con otra particion ocupada
C10_Witness ==
    /\ pc = "promovido"
    /\ retorno = TRUE
    /\ procesos[Head(cola_listos_suspendidos)].particion_asignada # None
    /\ contar_procesos_en_memoria(particiones) >= 2

\* C11: liberar_particion(proceso): si el proceso tiene particion, despues la
\* particion queda sin proceso_asignado, el proceso sin particion_asignada y
\* se devuelve True (las demas particiones y procesos no cambian); si no
\* tiene particion se devuelve False y ninguna particion cambia. Se comprueba
\* en la llamada de simular y, para cada proceso de cada estado, sobre el
\* resultado que daria la llamada.
C11_LiberarParticion ==
    [][/\ \A p \in Indices(procesos) :
              LET r == liberar_particion(particiones, procesos, p)
                  k == procesos[p].particion_asignada
              IN  IF k # None
                  THEN /\ r.ret = TRUE
                       /\ r.particiones = [particiones EXCEPT ![k] = None]
                       /\ r.procesos = [procesos EXCEPT ![p].particion_asignada = None]
                  ELSE /\ r.ret = FALSE
                       /\ r.particiones = particiones
                       /\ r.procesos = procesos
       /\ (pc = "liberar" /\ procesos[proceso_terminado].particion_asignada # None)
              => /\ retorno' = TRUE
                 /\ particiones'[procesos[proceso_terminado].particion_asignada] = None
                 /\ procesos'[proceso_terminado].particion_asignada = None
                 /\ \A i \in IdsParticion :
                        i # procesos[proceso_terminado].particion_asignada
                            => particiones'[i] = particiones[i]
       /\ (pc = "liberar" /\ procesos[proceso_terminado].particion_asignada = None)
              => /\ retorno' = FALSE
                 /\ particiones' = particiones]_vars

\* simular acaba de liberar la particion del proceso que termino mientras
\* otro proceso conserva la suya y otro no tiene ninguna
C11_Witness ==
    /\ pc = "promover"
    /\ retorno = TRUE
    /\ procesos[proceso_terminado].estado = TERMINADO
    /\ procesos[proceso_terminado].tiempo_finalizacion = tiempo_actual
    /\ procesos[proceso_terminado].particion_asignada = None
    /\ \A i \in IdsParticion : particiones[i] # proceso_terminado
    /\ \E q \in Indices(procesos) :
           /\ procesos[q].particion_asignada # None
           /\ particiones[procesos[q].particion_asignada] = q
    /\ \E q \in Indices(procesos) :
           /\ q # proceso_terminado
           /\ procesos[q].particion_asignada = None

\* clave (tiempo_arribo, tiempo_irrupcion) de un proceso
clave_admision(p) == <<procesos[p].tiempo_arribo, procesos[p].tiempo_irrupcion>>

carga_combinada == contar_procesos_en_memoria(particiones) + Len(cola_listos_suspendidos)

\* C13: en una pasada de admision cada proceso NUEVO pendiente, tomado en
\* orden, tiene exactamente uno de tres resultados: si la carga combinada ya
\* es 5, el y los que siguen quedan NUEVO en cola_nuevos; si no, si best_fit
\* encuentra particion pasa a LISTO con esa particion; si no, pasa a
\* LISTO_SUSPENDIDO al final de la cola de suspendidos, sin particion.
C13_ResultadosDeAdmision ==
    [][/\ pc = "admitir" => carga_combinada <= GRADO_MULTIPROGRAMACION_MAX
       /\ (/\ pc = "admitir"
           /\ cola_nuevos # <<>>
           /\ carga_combinada = GRADO_MULTIPROGRAMACION_MAX)
              => /\ pc' = "seleccionar"
                 /\ cola_nuevos' = cola_nuevos
                 /\ procesos' = procesos
                 /\ particiones' = particiones
                 /\ cola_listos' = cola_listos
                 /\ cola_listos_suspendidos' = cola_listos_suspendidos
                 /\ \A q \in ElemsDe(cola_nuevos) : procesos[q].estado = NUEVO
       /\ (/\ pc = "admitir"
           /\ cola_nuevos # <<>>
           /\ carga_combinada < GRADO_MULTIPROGRAMACION_MAX)
              => LET p == Head(cola_nuevos)
                     k == best_fit(particiones, procesos[p].tamano)
                 IN  /\ pc' = "admitido"
                     /\ cola_nuevos' = cola_nuevos
                     /\ retorno' = (k # None)
                     /\ procesos'[p].particion_asignada = k
                     /\ k # None => particiones'[k] = p
                     /\ k = None => particiones' = particiones
       /\ pc = "admitido"
              => LET p == Head(cola_nuevos)
                     k == procesos[p].particion_asignada
                 IN  /\ pc' = "admitir"
                     /\ cola_nuevos' = Tail(cola_nuevos)
                     /\ particiones' = particiones
                     /\ procesos'[p].particion_asignada = k
                     /\ IF retorno
                        THEN /\ k # None
                             /\ particiones[k] = p
                             /\ procesos'[p].estado = LISTO
                             /\ p \in ElemsDe(cola_listos')
                             /\ cola_listos_suspendidos' = cola_listos_suspendidos
                        ELSE /\ k = None
                             /\ best_fit(particiones, procesos[p].tamano) = None
                             /\ procesos'[p].estado = LISTO_SUSPENDIDO
                             /\ cola_listos_suspendidos'
                                    = Append(cola_listos_suspendidos, p)
                             /\ cola_listos' = cola_listos]_vars

\* la pasada de admision del instante inicial termino con los tres
\* resultados: hay admitidos, hay mas de un suspendido y quedan procesos
\* NUEVO en cola_nuevos
C13_Witness ==
    /\ pc = "seleccionar"
    /\ fase = "inicial"
    /\ cola_nuevos # <<>>
    /\ \A q \in ElemsDe(cola_nuevos) : procesos[q].estado = NUEVO
    /\ cola_listos # <<>>
    /\ Len(cola_listos_suspendidos) >= 2
    /\ carga_combinada = GRADO_MULTIPROGRAMACION_MAX

\* C14: un proceso solo sigue en cola_nuevos (NUEVO) en un estado mostrado
\* mientras el limite esta alcanzado: en cada estado mostrado, cola_nuevos no
\* vacia implica particiones ocupadas + largo de la cola de suspendidos = 5.
C14_NuevosSoloConLimite ==
    (mostrado /\ cola_nuevos # <<>>) =>
        /\ carga_combinada = GRADO_MULTIPROGRAMACION_MAX
        /\ \A q \in ElemsDe(cola_nuevos) : procesos[q].estado = NUEVO

\* un proceso arribo despues del instante inicial con el limite alcanzado y
\* quedo en cola_nuevos en el estado mostrado de ese arribo
C14_Witness ==
    /\ mostrado
    /\ fase = "arribos"
    /\ tiempo_actual > 0
    /\ \E q \in ElemsDe(cola_nuevos) : procesos[q].tiempo_arribo = tiempo_actual
    /\ carga_combinada = GRADO_MULTIPROGRAMACION_MAX

\* el proceso entra en alguna particion libre
entra_en_memoria(p) == best_fit(particiones, procesos[p].tamano) # None

\* posiciones de la cola de suspendidos, despues de la primera, cuyo proceso
\* entra en alguna particion libre
posiciones_que_entran ==
    {i \in 2..Len(cola_listos_suspendidos) : entra_en_memoria(cola_listos_suspendidos[i])}

\* C15: en cada finalizacion el motor, en este orden, termina el proceso en
\* ejecucion, libera su particion, promueve suspendidos (repetidamente: la
\* cabeza de la cola si entra en una particion libre por Best-Fit, si no el
\* primer suspendido posterior que entre; hasta que ninguno entre o la cola
\* se vacie), despues intenta admitir los NUEVO pendientes y despues llama a
\* seleccionar_siguiente; asi un suspendido que entra en la memoria liberada
\* siempre se ubica antes que cualquier NUEVO pendiente.
C15_OrdenDeFinalizacion ==
    [][/\ pc = "finalizar"
              => /\ fase = "finalizacion"
                 /\ pc' = "liberar"
                 /\ procesos'[proceso_ejecutando].estado = TERMINADO
                 /\ proceso_terminado' = proceso_ejecutando
                 /\ particiones' = particiones
       /\ pc = "liberar"
              => /\ pc' = "promover"
                 /\ \A i \in IdsParticion : particiones'[i] # proceso_terminado
                 /\ cola_listos_suspendidos' = cola_listos_suspendidos
                 /\ cola_nuevos' = cola_nuevos
       /\ pc \in {"promover", "promovido"}
              => /\ fase = "finalizacion"
                 /\ pc = "promover" => carga_combinada < GRADO_MULTIPROGRAMACION_MAX
                 /\ pc' \in {"promover", "promovido", "ordenar_nuevos"}
                 /\ cola_nuevos' = cola_nuevos
                 /\ \A q \in ElemsDe(cola_nuevos) : procesos'[q] = procesos[q]
       /\ (pc = "promover" /\ cola_listos_suspendidos = <<>>)
              => pc' = "ordenar_nuevos"
       /\ (pc = "promover" /\ cola_listos_suspendidos # <<>>)
              => /\ pc' = "promovido"
                 /\ retorno' = entra_en_memoria(Head(cola_listos_suspendidos))
                 /\ cola_listos_suspendidos' = cola_listos_suspendidos
       /\ pc = "promovido"
              => IF retorno
                 THEN LET p == Head(cola_listos_suspendidos)
                      IN  /\ pc' = "promover"
                          /\ cola_listos_suspendidos' = Tail(cola_listos_suspendidos)
                          /\ procesos'[p].estado = LISTO
                          /\ particiones[procesos'[p].particion_asignada] = p
                          /\ p \in ElemsDe(cola_listos')
                 ELSE IF posiciones_que_entran = {}
                 THEN /\ pc' = "ordenar_nuevos"
                      /\ cola_listos_suspendidos' = cola_listos_suspendidos
                      /\ particiones' = particiones
                      /\ procesos' = procesos
                      /\ cola_listos' = cola_listos
                 ELSE LET i == Min(posiciones_que_entran)
                          p == cola_listos_suspendidos[i]
                      IN  /\ pc' = "promover"
                          /\ cola_listos_suspendidos' = pop(cola_listos_suspendidos, i)
                          /\ procesos'[p].estado = LISTO
                          /\ procesos'[p].particion_asignada
                                 = best_fit(particiones, procesos[p].tamano)
                          /\ particiones'[procesos'[p].particion_asignada] = p
                          /\ p \in ElemsDe(cola_listos')
       /\ (fase = "finalizacion" /\ pc \in {"ordenar_nuevos", "admitir", "admitido"})
              => /\ \A q \in ElemsDe(cola_listos_suspendidos) : ~entra_en_memoria(q)
                 /\ pc' \in {"admitir", "admitido", "seleccionar"}
       /\ (fase = "finalizacion" /\ pc = "seleccionar")
              => /\ mostrado'
                 /\ pc' \in {"bucle", "arribos"}
                 /\ cola_nuevos' = cola_nuevos
                 /\ cola_listos_suspendidos' = cola_listos_suspendidos]_vars

\* tras una finalizacion se promovio a un suspendido que no era la cabeza de
\* la cola (la cabeza sigue suspendida) y todavia espera un NUEVO que tambien
\* entraba en la particion que recibio el promovido
C15_Witness ==
    /\ pc = "ordenar_nuevos"
    /\ fase = "finalizacion"
    /\ cola_listos_suspendidos # <<>>
    /\ \E p \in Indices(procesos) :
           /\ procesos[p].estado = LISTO
           /\ procesos[p].tiempo_llegada_listo = tiempo_actual
           /\ Head(cola_listos_suspendidos) < p
           /\ \E q \in ElemsDe(cola_nuevos) :
                  procesos[q].tamano <= tamano_particion[procesos[p].particion_asignada]

\* C16: cada proceso pasa a TERMINADO a lo sumo una vez y solo en un instante
\* en que su tiempo_restante llego a 0; tiempo_finalizacion se fija en ese
\* momento con el valor del reloj y no cambia despues, y un proceso
\* TERMINADO no vuelve a cambiar de estado.
C16_TerminaUnaVez ==
    [][procesos # <<>> =>
          \A p \in Indices(procesos) :
              /\ procesos[p].estado = TERMINADO
                     => /\ procesos'[p].estado = TERMINADO
                        /\ procesos'[p].tiempo_finalizacion = procesos[p].tiempo_finalizacion
                        /\ procesos'[p].tiempo_restante = procesos[p].tiempo_restante
              /\ (procesos[p].estado # TERMINADO /\ procesos'[p].estado = TERMINADO)
                     => /\ procesos[p].tiempo_restante = 0
                        /\ tiempo_actual' = tiempo_actual
                        /\ procesos'[p].tiempo_finalizacion = tiempo_actual
              /\ procesos'[p].estado # TERMINADO
                     => procesos'[p].tiempo_finalizacion = None]_vars

\* un proceso termino en un instante anterior y conserva su
\* tiempo_finalizacion mientras otro, que ya estuvo esperando, ejecuta
C16_Witness ==
    /\ proceso_ejecutando # None
    /\ procesos[proceso_ejecutando].tiempo_espera_acumulado > 0
    /\ \E p \in Indices(procesos) :
           /\ procesos[p].estado = TERMINADO
           /\ procesos[p].tiempo_restante = 0
           /\ procesos[p].tiempo_finalizacion # None
           /\ procesos[p].tiempo_finalizacion < tiempo_actual

\* C17: en cada estado mostrado un proceso tiene particion_asignada distinta
\* de None si y solo si su estado es LISTO o EJECUCION; los procesos
\* SIN_ARRIBAR, NUEVO, LISTO_SUSPENDIDO o TERMINADO no tienen particion.
C17_ParticionSiiEnMemoria ==
    mostrado =>
        \A p \in Indices(procesos) :
            /\ (procesos[p].particion_asignada # None)
                   <=> (procesos[p].estado \in {LISTO, EJECUCION})
            /\ procesos[p].particion_asignada # None
                   => particiones[procesos[p].particion_asignada] = p

\* estado mostrado con un proceso terminado, uno suspendido, uno listo y uno
\* en ejecucion
C17_Witness ==
    /\ mostrado
    /\ \E p \in Indices(procesos) :
           procesos[p].estado = TERMINADO /\ procesos[p].particion_asignada = None
    /\ \E p \in Indices(procesos) :
           procesos[p].estado = LISTO_SUSPENDIDO /\ procesos[p].particion_asignada = None
    /\ \E p \in Indices(procesos) :
           procesos[p].estado = LISTO /\ procesos[p].particion_asignada # None
    /\ \E p \in Indices(procesos) :
           procesos[p].estado = EJECUCION /\ procesos[p].particion_asignada # None

\* C18: en todo estado alcanzable cada particion ocupada tiene exactamente un
\* proceso, de tamano <= al de la particion, y la particion del sistema
\* operativo (id 0) nunca tiene ocupante.
C18_OcupanteEntra ==
    /\ particiones[0] = None
    /\ \A i \in IdsParticion :
           particiones[i] # None =>
               /\ particiones[i] \in Indices(procesos)
               /\ procesos[particiones[i]].tamano <= tamano_particion[i]
               /\ \A j \in IdsParticion : particiones[j] = particiones[i] => j = i

\* las tres particiones ocupadas, la de 150 KB por un proceso que tambien
\* entraba en la de 50 KB, y un proceso suspendido que solo entra en la de
\* 250 KB
C18_Witness ==
    /\ contar_procesos_en_memoria(particiones) = 3
    /\ procesos[particiones[2]].tamano <= TAMANO_PEQUENO
    /\ \E q \in ElemsDe(cola_listos_suspendidos) : procesos[q].tamano > TAMANO_MEDIANO
    /\ pc = "bucle"

\* C19: para todo proceso TERMINADO (en particular al final de la corrida)
\* calcular_tiempo_retorno() = tiempo_finalizacion - tiempo_arribo >=
\* tiempo_irrupcion y calcular_tiempo_espera() = retorno - tiempo_irrupcion
\* >= 0.
C19_RetornoYEspera ==
    \A p \in Indices(procesos) :
        procesos[p].estado = TERMINADO =>
            /\ procesos[p].tiempo_finalizacion # None
            /\ calcular_tiempo_retorno(procesos[p])
                   = procesos[p].tiempo_finalizacion - procesos[p].tiempo_arribo
            /\ calcular_tiempo_retorno(procesos[p]) >= procesos[p].tiempo_irrupcion
            /\ calcular_tiempo_espera(procesos[p])
                   = calcular_tiempo_retorno(procesos[p]) - procesos[p].tiempo_irrupcion
            /\ calcular_tiempo_espera(procesos[p]) >= 0

\* fin de una corrida en la que todos terminaron: uno que arribo despues de
\* 0 no espero nada y otro espero
C19_Witness ==
    /\ pc = "fin"
    /\ \A p \in Indices(procesos) : procesos[p].estado = TERMINADO
    /\ \E p \in Indices(procesos) :
           /\ procesos[p].tiempo_arribo > 0
           /\ calcular_tiempo_espera(procesos[p]) = 0
    /\ \E p \in Indices(procesos) : calcular_tiempo_espera(procesos[p]) > 0

\* C20: escenario A (un proceso de tamano 60, arribo 0, irrupcion 4): el
\* proceso se admite en la particion de 150 KB (fragmentacion interna 90),
\* termina con el reloj en 4 y tiene retorno 4 y espera 0.
C20_EscenarioA ==
    (Len(procesos) = 1
     /\ procesos[1].tamano = 60
     /\ procesos[1].tiempo_arribo = 0
     /\ procesos[1].tiempo_irrupcion = 4) =>
        /\ procesos[1].estado \in {SIN_ARRIBAR, NUEVO, LISTO, EJECUCION, TERMINADO}
        /\ procesos[1].estado \in {LISTO, EJECUCION} =>
               /\ procesos[1].particion_asignada = 2
               /\ tamano_particion[2] = TAMANO_MEDIANO
               /\ TAMANO_MEDIANO = 150
               /\ particiones = [i \in IdsParticion |-> IF i = 2 THEN 1 ELSE None]
               /\ calcular_fragmentacion_interna(particiones, procesos, 2) = 90
        /\ (mostrado /\ pc # "arribos_iniciales" /\ tiempo_actual < 4) =>
               /\ procesos[1].estado = EJECUCION
               /\ tiempo_actual = 0
        /\ procesos[1].estado = TERMINADO =>
               /\ tiempo_actual = 4
               /\ procesos[1].tiempo_finalizacion = 4
               /\ calcular_tiempo_retorno(procesos[1]) = 4
               /\ calcular_tiempo_espera(procesos[1]) = 0
        /\ pc = "fin" =>
               /\ procesos[1].estado = TERMINADO
               /\ particiones = [i \in IdsParticion |-> None]

\* fin de la corrida del escenario A
C20_Witness ==
    /\ pc = "fin"
    /\ Len(procesos) = 1
    /\ procesos[1].tamano = 60
    /\ procesos[1].tiempo_arribo = 0
    /\ procesos[1].tiempo_irrupcion = 4
    /\ procesos[1].estado = TERMINADO
    /\ procesos[1].tiempo_finalizacion = 4
    /\ tiempo_actual = 4

\* la corrida es la del escenario B, en cualquiera de los dos ordenes
es_escenario_B ==
    /\ Len(procesos) = 2
    /\ {<<procesos[p].tamano, procesos[p].tiempo_arribo, procesos[p].tiempo_irrupcion>> :
           p \in Indices(procesos)} = {<<30, 0, 5>>, <<20, 0, 2>>}

\* indice del proceso de ese tamano
proceso_de_tamano(t) == CHOOSE p \in Indices(procesos) : procesos[p].tamano = t

\* C21: escenario B (P1 de tamano 30 e irrupcion 5, P2 de tamano 20 e
\* irrupcion 2, ambos con arribo 0, en cualquier orden de entrada): los dos
\* se admiten, P2 ejecuta primero y termina con el reloj en 2, P1 ejecuta de
\* 2 a 7 y la espera de P1 es 2.
C21_EscenarioB ==
    es_escenario_B =>
        LET P1 == procesos[proceso_de_tamano(30)]
            P2 == procesos[proceso_de_tamano(20)]
        IN  /\ P1.estado # LISTO_SUSPENDIDO /\ P2.estado # LISTO_SUSPENDIDO
            /\ (mostrado /\ pc = "bucle") =>
                   /\ cola_nuevos = <<>>
                   /\ tiempo_actual \in {0, 2, 7}
            /\ (mostrado /\ pc = "bucle" /\ tiempo_actual = 0) =>
                   /\ P2.estado = EJECUCION
                   /\ P1.estado = LISTO
                   /\ P1.particion_asignada # None
                   /\ P2.particion_asignada # None
            /\ P2.estado = EJECUCION => P1.estado = LISTO /\ P1.tiempo_restante = 5
            /\ P2.estado = TERMINADO => P2.tiempo_finalizacion = 2
            /\ P1.estado = EJECUCION =>
                   /\ P2.estado = TERMINADO
                   /\ tiempo_actual \in {2, 7}
                   /\ P1.tiempo_restante = 7 - tiempo_actual
                   /\ P1.tiempo_espera_acumulado = 2
            /\ P1.estado = TERMINADO =>
                   /\ P1.tiempo_finalizacion = 7
                   /\ calcular_tiempo_espera(P1) = 2
                   /\ calcular_tiempo_espera(P2) = 0
            /\ pc = "fin" => P1.estado = TERMINADO /\ P2.estado = TERMINADO

\* fin de la corrida del escenario B con P2 despues de P1 en el archivo
C21_Witness ==
    /\ es_escenario_B
    /\ pc = "fin"
    /\ procesos[1].tamano = 30
    /\ procesos[1].tiempo_finalizacion = 7
    /\ procesos[2].tiempo_finalizacion = 2

\* la corrida es una de las del escenario C
es_escenario_C ==
    /\ Len(procesos) = 6
    /\ \A p \in Indices(procesos) :
           /\ procesos[p].tamano = 40
           /\ procesos[p].tiempo_arribo = (IF p = 6 THEN 1 ELSE 0)

\* los procesos en orden de (tiempo_arribo, tiempo_irrupcion)
orden_de_candidatos ==
    sort_estable([p \in Indices(procesos) |-> p],
                 [p \in Indices(procesos) |->
                     <<procesos[p].tiempo_arribo, procesos[p].tiempo_irrupcion>>])

\* C22: escenario C (6 procesos de tamano 40 con arribos 0,0,0,0,0,1): el
\* quinto y el sexto candidatos en orden de (tiempo_arribo,
\* tiempo_irrupcion) no se admiten a memoria sino que van a la cola de
\* suspendidos en vez de quedar indefinidamente como NUEVO (el quinto nunca
\* se muestra como NUEVO, el sexto solo mientras ningun proceso termino, y al
\* final todos terminan), y solo entran a memoria por promocion despues de
\* una finalizacion.
C22_EscenarioC ==
    [][es_escenario_C =>
          \A p \in {orden_de_candidatos[5], orden_de_candidatos[6]} :
              /\ (procesos[p].estado = NUEVO /\ procesos'[p].estado # NUEVO)
                     => /\ procesos'[p].estado = LISTO_SUSPENDIDO
                        /\ procesos'[p].particion_asignada = None
                        /\ p \in ElemsDe(cola_listos_suspendidos')
              /\ (procesos[p].particion_asignada = None
                  /\ procesos'[p].particion_asignada # None)
                     => /\ pc \in {"promover", "promovido"}
                        /\ fase = "finalizacion"
                        /\ procesos[p].estado = LISTO_SUSPENDIDO
                        /\ p \in ElemsDe(cola_listos_suspendidos)
                        /\ procesos[proceso_terminado].tiempo_finalizacion = tiempo_actual
              /\ procesos'[p].estado \in {LISTO, EJECUCION}
                     => procesos'[p].tiempo_llegada_listo > procesos'[p].tiempo_arribo
              /\ (mostrado' /\ procesos'[p].estado = NUEVO)
                     => /\ p = orden_de_candidatos[6]
                        /\ \A q \in Indices(procesos) : procesos'[q].estado # TERMINADO
              /\ pc' = "fin" => procesos'[p].estado = TERMINADO]_vars

\* el proceso que arribo en 1 ejecuta despues de haber quedado NUEVO con el
\* limite alcanzado (nadie termino en 1), ser suspendido y ser promovido
C22_Witness ==
    /\ es_escenario_C
    /\ mostrado
    /\ procesos[6].estado = EJECUCION
    /\ procesos[6].tiempo_llegada_listo > 2
    /\ \A p \in 1..5 : procesos[p].tiempo_irrupcion = 2

\* la corrida es una de las del escenario D
es_escenario_D ==
    /\ Len(procesos) = 2
    /\ procesos[1].tiempo_arribo = 0 /\ procesos[1].tiempo_irrupcion = 10
    /\ procesos[2].tiempo_arribo = 3 /\ procesos[2].tiempo_irrupcion = 2

\* C23: escenario D (P1 con arribo 0 e irrupcion 10 ejecutando solo; P2 con
\* irrupcion 2 arriba y se admite con el reloj en 3): seleccionar_siguiente
\* en 3 preempta a P1 (le quedan 7), P2 ejecuta hasta terminar en 5 y P1
\* retoma con tiempo_restante 7 (termina en 12).
C23_EscenarioD ==
    es_escenario_D =>
        LET P1 == procesos[1]
            P2 == procesos[2]
        IN  /\ tiempo_actual \in {0, 3, 5, 12}
            /\ P1.tiempo_restante \in {10, 7, 0}
            /\ P2.tiempo_restante \in {2, 0}
            /\ (mostrado /\ pc = "bucle" /\ tiempo_actual = 0) =>
                   /\ P1.estado = EJECUCION
                   /\ P2.estado = SIN_ARRIBAR
                   /\ cola_listos = <<>>
            /\ (pc = "seleccionar" /\ tiempo_actual = 3) =>
                   /\ P1.estado = EJECUCION /\ P1.tiempo_restante = 7
                   /\ P2.estado = LISTO /\ P2.particion_asignada # None
            /\ (mostrado /\ tiempo_actual = 3) =>
                   /\ proceso_ejecutando = 2
                   /\ P2.estado = EJECUCION
                   /\ P1.estado = LISTO /\ P1.tiempo_restante = 7
                   /\ cola_listos = <<1>>
            /\ P2.estado = TERMINADO => P2.tiempo_finalizacion = 5
            /\ (mostrado /\ tiempo_actual = 5) =>
                   /\ proceso_ejecutando = 1
                   /\ P1.estado = EJECUCION /\ P1.tiempo_restante = 7
                   /\ P2.estado = TERMINADO
            /\ P1.estado = TERMINADO =>
                   /\ P1.tiempo_finalizacion = 12
                   /\ P1.tiempo_espera_acumulado = 2
            /\ pc = "fin" => P1.estado = TERMINADO /\ P2.estado = TERMINADO

\* P1 retomo en 5 con tiempo_restante 7 despues de haber sido preemptado
C23_Witness ==
    /\ es_escenario_D
    /\ mostrado
    /\ tiempo_actual = 5
    /\ proceso_ejecutando = 1
    /\ procesos[1].tiempo_restante = 7
    /\ procesos[1].tiempo_espera_acumulado = 2
    /\ procesos[2].tiempo_finalizacion = 5

\* instantes candidatos a siguiente evento: arribos futuros de procesos
\* SIN_ARRIBAR y fin del proceso en ejecucion
eventos_candidatos ==
    {procesos[p].tiempo_arribo : p \in {q \in Indices(procesos) :
        procesos[q].estado = SIN_ARRIBAR /\ procesos[q].tiempo_arribo > tiempo_actual}}
    \cup {tiempo_actual + procesos[p].tiempo_restante : p \in {proceso_ejecutando} \ {None}}

\* C24: cada paso del bucle pone el reloj en el minimo entre (a) los tiempos
\* de arribo, mayores al reloj, de los procesos SIN_ARRIBAR y (b) reloj +
\* tiempo_restante del proceso en ejecucion si lo hay, y descuenta del
\* tiempo_restante del proceso en ejecucion exactamente lo que avanzo el
\* reloj; el tiempo_restante de los demas no cambia (ni el reloj ni ningun
\* tiempo_restante cambian fuera de ese paso).
C24_SiguienteEvento ==
    [][procesos # <<>> =>
          IF pc = "bucle" /\ hay_procesos_pendientes(procesos) /\ eventos_candidatos # {}
          THEN /\ pc' # "fin"
               /\ tiempo_actual' \in eventos_candidatos
               /\ \A c \in eventos_candidatos : tiempo_actual' <= c
               /\ \A p \in Indices(procesos) :
                      procesos'[p].tiempo_restante =
                          IF p = proceso_ejecutando
                          THEN procesos[p].tiempo_restante - (tiempo_actual' - tiempo_actual)
                          ELSE procesos[p].tiempo_restante
          ELSE /\ tiempo_actual' = tiempo_actual
               /\ \A p \in Indices(procesos) :
                      procesos'[p].tiempo_restante = procesos[p].tiempo_restante]_vars

\* el reloj salto a un arribo anterior al fin del proceso en ejecucion, al
\* que le queda parte de la rafaga, mientras otro proceso espera sin haber
\* ejecutado
C24_Witness ==
    /\ pc = "arribos"
    /\ fase = "ninguna"
    /\ tiempo_actual > 0
    /\ proceso_ejecutando # None
    /\ procesos[proceso_ejecutando].tiempo_restante
           = procesos[proceso_ejecutando].tiempo_irrupcion - tiempo_actual
    /\ procesos[proceso_ejecutando].tiempo_restante > 0
    /\ \E q \in ElemsDe(cola_listos) :
           procesos[q].tiempo_restante = procesos[q].tiempo_irrupcion

\* C25: finalizar_proceso_actual(ahora): si hay un proceso en ejecucion, pasa
\* a TERMINADO con tiempo_finalizacion = ahora, proceso_ejecutando queda en
\* None y se devuelve el proceso, sin cambiar ninguna de las dos colas; si no
\* hay nada en ejecucion devuelve None y no cambia nada. Se comprueba en la
\* llamada de simular y, en cada estado, sobre el resultado que daria la
\* llamada.
C25_FinalizarProcesoActual ==
    [][/\ LET r == finalizar_proceso_actual(proceso_ejecutando, procesos, tiempo_actual)
          IN  IF proceso_ejecutando = None
              THEN /\ r.ret = None
                   /\ r.proceso_ejecutando = None
                   /\ r.procesos = procesos
              ELSE /\ r.ret = proceso_ejecutando
                   /\ r.proceso_ejecutando = None
                   /\ r.procesos =
                          [procesos EXCEPT ![proceso_ejecutando].estado = TERMINADO,
                                           ![proceso_ejecutando].tiempo_finalizacion
                                               = tiempo_actual]
       /\ pc = "finalizar"
              => /\ proceso_ejecutando # None
                 /\ retorno' = proceso_ejecutando
                 /\ proceso_ejecutando' = None
                 /\ procesos'[proceso_ejecutando].estado = TERMINADO
                 /\ procesos'[proceso_ejecutando].tiempo_finalizacion = tiempo_actual
                 /\ \A q \in Indices(procesos) \ {proceso_ejecutando} :
                        procesos'[q] = procesos[q]
                 /\ cola_listos' = cola_listos
                 /\ cola_listos_suspendidos' = cola_listos_suspendidos]_vars

\* simular acaba de finalizar al proceso en ejecucion con procesos en las dos
\* colas
C25_Witness ==
    /\ pc = "liberar"
    /\ proceso_ejecutando = None
    /\ retorno = proceso_terminado
    /\ procesos[proceso_terminado].estado = TERMINADO
    /\ procesos[proceso_terminado].tiempo_finalizacion = tiempo_actual
    /\ cola_listos # <<>>
    /\ cola_listos_suspendidos # <<>>

\* la secuencia s sin los elementos del conjunto S
sin_elementos(s, S) == SelectSeq(s, LAMBDA x : x \notin S)

\* C26: despues de cualquier secuencia de llamadas a agregar_listo y
\* seleccionar_siguiente, cola_listos esta ordenada de menor a mayor
\* tiempo_restante y los procesos de igual tiempo_restante estan en el orden
\* en que entraron (la ultima vez) a la cola: el que entra queda detras de
\* todos los de tiempo_restante menor o igual y delante de los de mayor, los
\* demas conservan su orden relativo y solo sale la cabeza, asi que entre
\* iguales se despacha primero el que entro antes.
C26_ColaListosOrdenada ==
    [][LET entran == ElemsDe(cola_listos') \ ElemsDe(cola_listos)
           salen == ElemsDe(cola_listos) \ ElemsDe(cola_listos')
       IN  /\ \A i, j \in 1..Len(cola_listos') :
                  i < j => procesos'[cola_listos'[i]].tiempo_restante
                               <= procesos'[cola_listos'[j]].tiempo_restante
           /\ sin_elementos(cola_listos', entran) = sin_elementos(cola_listos, salen)
           /\ Cardinality(entran) <= 1
           /\ salen # {} => /\ salen = {Head(cola_listos)}
                            /\ proceso_ejecutando' = Head(cola_listos)
           /\ \A i, j \in 1..Len(cola_listos') :
                  (cola_listos'[j] \in entran /\ i # j) =>
                      (i < j <=> procesos'[cola_listos'[i]].tiempo_restante
                                     <= procesos'[cola_listos'[j]].tiempo_restante)]_vars

\* dos procesos de igual tiempo_restante en cola_listos: el que entro en un
\* instante posterior esta detras aunque esta antes en la lista de procesos
C26_Witness ==
    \E i, j \in 1..Len(cola_listos) :
        /\ i < j
        /\ procesos[cola_listos[i]].tiempo_restante
               = procesos[cola_listos[j]].tiempo_restante
        /\ procesos[cola_listos[i]].ultimo_tiempo_espera_inicio
               < procesos[cola_listos[j]].ultimo_tiempo_espera_inicio
        /\ cola_listos[j] < cola_listos[i]

\* C27: agregar_suspendido pone el estado del proceso en LISTO_SUSPENDIDO y
\* lo agrega al final de cola_listos_suspendidos, sin cambiar el orden
\* relativo de los que ya estaban, la cola de listos, el proceso en
\* ejecucion ni el tiempo_restante del proceso. Se comprueba en la llamada
\* de la pasada de admision y, para cada proceso de cada estado, sobre el
\* resultado que daria la llamada.
C27_AgregarSuspendido ==
    [][/\ \A p \in Indices(procesos) :
              LET r == agregar_suspendido(cola_listos_suspendidos, procesos, p,
                                          tiempo_actual)
              IN  /\ r.cola_listos_suspendidos = Append(cola_listos_suspendidos, p)
                  /\ r.procesos = [procesos EXCEPT ![p].estado = LISTO_SUSPENDIDO]
       /\ (pc = "admitido" /\ retorno = FALSE)
              => LET p == Head(cola_nuevos)
                 IN  /\ procesos'[p].estado = LISTO_SUSPENDIDO
                     /\ procesos'[p].tiempo_restante = procesos[p].tiempo_restante
                     /\ Len(cola_listos_suspendidos') = Len(cola_listos_suspendidos) + 1
                     /\ cola_listos_suspendidos'[Len(cola_listos_suspendidos')] = p
                     /\ SubSeq(cola_listos_suspendidos', 1, Len(cola_listos_suspendidos))
                            = cola_listos_suspendidos
                     /\ cola_listos' = cola_listos
                     /\ proceso_ejecutando' = proceso_ejecutando
                     /\ \A q \in Indices(procesos) \ {p} : procesos'[q] = procesos[q]]_vars

\* un proceso de rafaga mas corta acaba de quedar suspendido detras de otro
\* que ya estaba en la cola, con un proceso ejecutando
C27_Witness ==
    /\ pc = "admitir"
    /\ Len(cola_listos_suspendidos) >= 2
    /\ proceso_ejecutando # None
    /\ LET n == Len(cola_listos_suspendidos)
       IN  /\ procesos[cola_listos_suspendidos[n]].tiempo_arribo = tiempo_actual
           /\ procesos[cola_listos_suspendidos[n]].tiempo_restante
                  < procesos[cola_listos_suspendidos[n - 1]].tiempo_restante

fila_valida(fila) ==
    /\ fila.proceso_id.tipo = "texto"
    /\ fila.memoria_K.tipo = "entero" /\ fila.memoria_K.valor > 0
    /\ fila.t_arribo_al_sistema.tipo = "entero" /\ fila.t_arribo_al_sistema.valor >= 0
    /\ fila.tiempo_irrupcion.tipo = "entero" /\ fila.tiempo_irrupcion.valor > 0

\* lugar de la fila i en la lista ordenada por arribo que conserva el orden
\* de archivo entre arribos iguales
lugar_por_arribo(filas, i) ==
    1 + Cardinality({j \in 1..Len(filas) :
            \/ filas[j].t_arribo_al_sistema.valor < filas[i].t_arribo_al_sistema.valor
            \/ /\ filas[j].t_arribo_al_sistema.valor = filas[i].t_arribo_al_sistema.valor
               /\ j < i})

\* C29: leer_procesos o lanza ValueError o devuelve una lista de entre 1 y 10
\* procesos, cada uno con id no vacio, tamano > 0, tiempo_arribo >= 0 y
\* tiempo_irrupcion > 0, ordenada por tiempo_arribo conservando el orden de
\* archivo entre arribos iguales; y lanza siempre que la entrada no tiene
\* registros, tiene mas de 10 o tiene algun registro que viola esas
\* restricciones.
C29_LectorCSV ==
    /\ pc = "error" => retorno = ValueError
    /\ pc \notin {"construido", "error"} =>
           /\ Len(procesos) \in 1..MAX_PROCESOS
           /\ \A p \in Indices(procesos) :
                  /\ procesos[p].tamano > 0
                  /\ procesos[p].tiempo_arribo >= 0
                  /\ procesos[p].tiempo_irrupcion > 0
           /\ \A p, q \in Indices(procesos) :
                  p < q => procesos[p].tiempo_arribo <= procesos[q].tiempo_arribo
    /\ pc = "construido" =>
           \A archivo \in ArchivosCSV :
               LET r == leer_procesos_de_archivo(archivo)
                   filas == archivo.filas
               IN  /\ r.excepcion = sin_excepcion =>
                          /\ Len(r.procesos) \in 1..MAX_PROCESOS
                          /\ Len(r.procesos) = Len(filas)
                          /\ \A i \in 1..Len(filas) :
                                 /\ fila_valida(filas[i])
                                 /\ r.procesos[lugar_por_arribo(filas, i)]
                                        = Proceso(filas[i].memoria_K.valor,
                                                  filas[i].t_arribo_al_sistema.valor,
                                                  filas[i].tiempo_irrupcion.valor)
                   /\ (\/ ~archivo.columnas_requeridas
                       \/ Len(filas) = 0
                       \/ Len(filas) > MAX_PROCESOS
                       \/ \E i \in 1..Len(filas) : ~fila_valida(filas[i]))
                          => r.excepcion # sin_excepcion

\* la secuencia no repite elementos
sin_repetidos(s) == \A i, j \in 1..Len(s) : s[i] = s[j] => i = j

\* C30: en cada estado mostrado cada proceso esta exactamente en el lugar que
\* corresponde a su estado: los SIN_ARRIBAR en ninguna cola, los NUEVO son
\* exactamente los de cola_nuevos, los LISTO los de cola_listos, los
\* LISTO_SUSPENDIDO los de cola_listos_suspendidos, EJECUCION exactamente
\* proceso_ejecutando y los TERMINADO en ninguna cola; ningun proceso aparece
\* dos veces en una cola ni en dos colas, y ningun proceso sale nunca de
\* Simulador.procesos.
C30_UnLugarPorProceso ==
    [][/\ mostrado' =>
              /\ ElemsDe(cola_nuevos')
                     = {p \in Indices(procesos') : procesos'[p].estado = NUEVO}
              /\ ElemsDe(cola_listos')
                     = {p \in Indices(procesos') : procesos'[p].estado = LISTO}
              /\ ElemsDe(cola_listos_suspendidos')
                     = {p \in Indices(procesos') : procesos'[p].estado = LISTO_SUSPENDIDO}
              /\ {proceso_ejecutando'} \ {None}
                     = {p \in Indices(procesos') : procesos'[p].estado = EJECUCION}
              /\ \A p \in Indices(procesos') : procesos'[p].estado \in EstadoProceso
              /\ sin_repetidos(cola_nuevos' \o cola_listos' \o cola_listos_suspendidos'
                                   \o (IF proceso_ejecutando' = None
                                       THEN <<>>
                                       ELSE <<proceso_ejecutando'>>))
       /\ procesos # <<>> =>
              /\ Len(procesos') = Len(procesos)
              /\ \A p \in Indices(procesos) :
                     /\ procesos'[p].tamano = procesos[p].tamano
                     /\ procesos'[p].tiempo_arribo = procesos[p].tiempo_arribo
                     /\ procesos'[p].tiempo_irrupcion = procesos[p].tiempo_irrupcion]_vars

\* estado mostrado con procesos en todos los lugares: uno terminado, uno en
\* ejecucion y las tres colas con procesos
C30_Witness ==
    /\ mostrado
    /\ proceso_ejecutando # None
    /\ cola_nuevos # <<>>
    /\ cola_listos # <<>>
    /\ cola_listos_suspendidos # <<>>
    /\ \E p \in Indices(procesos) : procesos[p].estado = TERMINADO

\* todos los procesos cargados entran en la particion mas grande
todos_entran == \A p \in Indices(procesos) : procesos[p].tamano <= TAMANO_GRANDE

\* todos los procesos cargados estan TERMINADO
todos_terminados == \A p \in Indices(procesos) : procesos[p].estado = TERMINADO

\* C31: si todos los tamanos de la entrada (1 a 10 procesos) son <= 250, todo
\* proceso llega a TERMINADO y el bucle de simular termina con todos los
\* procesos terminados, sean cuales sean los arribos, las irrupciones y la
\* cantidad de procesos suspendidos o que quedaron NUEVO.
C31_TodosTerminan ==
    (pc = "simular" /\ todos_entran) ~> (pc = "fin" /\ todos_terminados)

\* corrida terminada de mas procesos que el grado de multiprogramacion en la
\* que un proceso paso por la cola de suspendidos o espero como NUEVO
C31_Witness ==
    /\ pc = "fin"
    /\ todos_entran
    /\ todos_terminados
    /\ Len(procesos) > GRADO_MULTIPROGRAMACION_MAX
    /\ \E p \in Indices(procesos) :
           procesos[p].tiempo_llegada_listo > procesos[p].tiempo_arribo

\* C32: el reloj crece estrictamente en cada iteracion del bucle principal:
\* al comienzo de una iteracion el proceso en ejecucion tiene
\* tiempo_restante > 0 y, si _calcular_tiempo_siguiente_evento devuelve un
\* valor, ese valor es mayor que tiempo_actual; el reloj solo cambia en ese
\* paso, asi que ningun instante se procesa en dos iteraciones.
C32_RelojCreciente ==
    [][/\ pc = "bucle" =>
              LET tiempo_siguiente ==
                      calcular_tiempo_siguiente_evento(procesos, proceso_ejecutando,
                                                       tiempo_actual)
              IN  /\ proceso_ejecutando # None =>
                         procesos[proceso_ejecutando].tiempo_restante > 0
                  /\ tiempo_siguiente # None => tiempo_siguiente > tiempo_actual
       /\ tiempo_actual' # tiempo_actual =>
              /\ pc = "bucle"
              /\ tiempo_actual' =
                     calcular_tiempo_siguiente_evento(procesos, proceso_ejecutando,
                                                      tiempo_actual)
              /\ tiempo_actual' > tiempo_actual
       /\ (pc = "bucle" /\ pc' # "fin") => tiempo_actual' > tiempo_actual]_vars

\* comienzo de una iteracion posterior a la primera, con un proceso en
\* ejecucion que ya fue preemptado y otro esperando en la cola de listos
C32_Witness ==
    /\ pc = "bucle"
    /\ tiempo_actual > 0
    /\ proceso_ejecutando # None
    /\ cola_listos # <<>>
    /\ \E p \in Indices(procesos) :
           procesos[p].estado = LISTO
           /\ procesos[p].tiempo_restante < procesos[p].tiempo_irrupcion
    /\ calcular_tiempo_siguiente_evento(procesos, proceso_ejecutando, tiempo_actual) # None

\* el estado es uno mostrado por mostrar_estado despues del inicial
mostrado_tras_seleccionar == mostrado /\ pc # "arribos_iniciales"

\* C33: en cada estado mostrado despues del inicial, si cola_listos no esta
\* vacia hay un proceso en ejecucion; y, si todos los tamanos son <= 250, la
\* CPU esta libre solo cuando las colas de listos, suspendidos y nuevos estan
\* vacias.
C33_ConservacionDeTrabajo ==
    mostrado_tras_seleccionar =>
        /\ cola_listos # <<>> => proceso_ejecutando # None
        /\ (todos_entran /\ proceso_ejecutando = None) =>
               /\ cola_listos = <<>>
               /\ cola_listos_suspendidos = <<>>
               /\ cola_nuevos = <<>>

\* estado mostrado con la CPU libre entre la finalizacion de un proceso y el
\* arribo de otro
C33_Witness ==
    /\ mostrado_tras_seleccionar
    /\ todos_entran
    /\ proceso_ejecutando = None
    /\ \E p \in Indices(procesos) : procesos[p].estado = TERMINADO
    /\ \E p \in Indices(procesos) : procesos[p].estado = SIN_ARRIBAR

\* particiones libres (no del SO) donde entra un proceso de ese tamano
particiones_libres_para(tamano) ==
    {i \in IdsParticion : esta_libre(particiones, i) /\ tamano_particion[i] >= tamano}

\* C34: en cada estado mostrado ningun proceso de la cola de suspendidos
\* podria entrar en memoria: no hay particion libre (no del SO) de tamano >=
\* el suyo; vale tambien despues de los arribos, aunque la promocion solo se
\* ejecuta en la rama de finalizacion.
C34_SuspendidosNoEntran ==
    mostrado =>
        \A k \in 1..Len(cola_listos_suspendidos) :
            particiones_libres_para(procesos[cola_listos_suspendidos[k]].tamano) = {}

\* estado mostrado despues de un arribo: hay particiones libres y un proceso
\* suspendido que entra en la particion mas grande, que esta ocupada
C34_Witness ==
    /\ mostrado
    /\ fase = "arribos"
    /\ \E i \in IdsParticion : esta_libre(particiones, i)
    /\ \E k \in 1..Len(cola_listos_suspendidos) :
           /\ procesos[cola_listos_suspendidos[k]].tamano <= TAMANO_GRANDE
           /\ procesos[cola_listos_suspendidos[k]].tiempo_arribo = tiempo_actual

\* C35: no hay swap-out: un proceso admitido en una particion conserva esa
\* misma particion hasta que termina (la preemption solo lo mueve entre
\* EJECUCION y LISTO), de modo que todo proceso NUEVO o LISTO_SUSPENDIDO
\* tiene tiempo_restante igual a su tiempo_irrupcion.
C35_SinSwapOut ==
    [][procesos # <<>> =>
           \A p \in Indices(procesos) :
               /\ procesos[p].estado \in {NUEVO, LISTO_SUSPENDIDO} =>
                      procesos[p].tiempo_restante = procesos[p].tiempo_irrupcion
               /\ (procesos[p].particion_asignada # None
                   /\ procesos'[p].particion_asignada # procesos[p].particion_asignada) =>
                      /\ procesos[p].estado = TERMINADO
                      /\ procesos'[p].particion_asignada = None
               /\ procesos[p].estado \in {LISTO, EJECUCION} =>
                      /\ procesos'[p].estado \in {LISTO, EJECUCION, TERMINADO}
                      /\ procesos[p].particion_asignada # None
                      /\ particiones[procesos[p].particion_asignada] = p]_vars

\* estado mostrado con un proceso preemptado: volvio a LISTO con parte de su
\* rafaga consumida y sigue en su particion
C35_Witness ==
    /\ mostrado
    /\ \E p \in Indices(procesos) :
           /\ procesos[p].estado = LISTO
           /\ procesos[p].tiempo_restante < procesos[p].tiempo_irrupcion
           /\ procesos[p].particion_asignada # None
           /\ particiones[procesos[p].particion_asignada] = p

\* transiciones de estado que un proceso puede hacer
TransicionesDeEstado ==
    {<<SIN_ARRIBAR, NUEVO>>, <<NUEVO, LISTO>>, <<NUEVO, LISTO_SUSPENDIDO>>,
     <<LISTO_SUSPENDIDO, LISTO>>, <<LISTO, EJECUCION>>, <<EJECUCION, LISTO>>,
     <<EJECUCION, TERMINADO>>}

\* C36: las unicas transiciones de estado de un proceso durante una corrida
\* son SIN_ARRIBAR -> NUEVO (en su instante de arribo, nunca antes),
\* NUEVO -> LISTO, NUEVO -> LISTO_SUSPENDIDO, LISTO_SUSPENDIDO -> LISTO,
\* LISTO -> EJECUCION, EJECUCION -> LISTO y EJECUCION -> TERMINADO; ningun
\* proceso corre ni ocupa memoria antes de su tiempo_arribo.
C36_TransicionesDeEstado ==
    [][procesos # <<>> =>
           \A p \in Indices(procesos) :
               /\ procesos'[p].estado # procesos[p].estado =>
                      /\ <<procesos[p].estado, procesos'[p].estado>> \in TransicionesDeEstado
                      /\ procesos[p].estado = SIN_ARRIBAR =>
                             /\ tiempo_actual = procesos[p].tiempo_arribo
                             /\ tiempo_actual' = tiempo_actual
               /\ (\/ procesos'[p].estado \in {EJECUCION, LISTO, LISTO_SUSPENDIDO, NUEVO,
                                               TERMINADO}
                   \/ procesos'[p].particion_asignada # None
                   \/ proceso_ejecutando' = p
                   \/ \E i \in IdsParticion : particiones'[i] = p) =>
                      procesos'[p].tiempo_arribo <= tiempo_actual']_vars

\* estado mostrado en el que corre un proceso que entro a memoria despues de
\* su arribo mientras otro sigue suspendido y otro ya termino
C36_Witness ==
    /\ mostrado
    /\ \E p \in Indices(procesos) :
           /\ procesos[p].estado = EJECUCION
           /\ procesos[p].tiempo_llegada_listo > procesos[p].tiempo_arribo
    /\ \E p \in Indices(procesos) : procesos[p].estado = LISTO_SUSPENDIDO
    /\ \E p \in Indices(procesos) : procesos[p].estado = TERMINADO

\* C37: en todo estado alcanzable las referencias entre procesos y
\* particiones son consistentes: la particion i tiene asignado a p si y solo
\* si la particion asignada de p es i; ningun proceso ocupa dos particiones
\* y dos particiones no nombran al mismo proceso.
C37_ReferenciasConsistentes ==
    /\ \A i \in IdsParticion :
           particiones[i] # None =>
               /\ particiones[i] \in Indices(procesos)
               /\ procesos[particiones[i]].particion_asignada = i
    /\ \A p \in Indices(procesos) :
           procesos[p].particion_asignada # None =>
               /\ procesos[p].particion_asignada \in IdsParticion
               /\ particiones[procesos[p].particion_asignada] = p
    /\ \A i, j \in IdsParticion :
           (particiones[i] # None /\ particiones[i] = particiones[j]) => i = j

\* las tres particiones ocupadas por procesos distintos despues de que otro
\* proceso termino y dejo la suya
C37_Witness ==
    /\ \A i \in IdsParticion : ~es_sistema_operativo[i] => particiones[i] # None
    /\ \E p \in Indices(procesos) :
           /\ procesos[p].estado = TERMINADO
           /\ procesos[p].particion_asignada = None

\* cantidad de particiones que no son del sistema operativo
ParticionesAsignables == Cardinality({i \in IdsParticion : ~es_sistema_operativo[i]})

\* C38: con la tabla fija de tres particiones asignables,
\* contar_procesos_en_memoria() nunca pasa de 3, asi que la prueba del limite
\* dentro de asignar_proceso (ocupadas >= 5) nunca es la causa de un rechazo:
\* cada False de asignar_proceso durante una corrida se debe a que best_fit
\* devuelve None.
C38_RechazoSoloPorBestFit ==
    [][/\ ParticionesAsignables = 3
       /\ contar_procesos_en_memoria(particiones) <= 3
       /\ contar_procesos_en_memoria(particiones) < GRADO_MULTIPROGRAMACION_MAX
       /\ (es_llamada_asignar /\ retorno' = FALSE) =>
              best_fit(particiones, procesos[proceso_de_la_llamada].tamano) = None
       /\ (pc = "promovido" /\ retorno = FALSE) =>
              \A k \in 2..Len(cola_listos_suspendidos) :
                  (\A j \in 2..k :
                       procesos'[cola_listos_suspendidos[j]].particion_asignada = None)
                  => best_fit(particiones,
                              procesos[cola_listos_suspendidos[k]].tamano) = None]_vars

\* asignar_proceso rechazo a un proceso que entra en cualquier particion
\* porque las tres estan ocupadas
C38_Witness ==
    /\ pc = "admitido"
    /\ retorno = FALSE
    /\ contar_procesos_en_memoria(particiones) = 3
    /\ procesos[Head(cola_nuevos)].tamano <= TAMANO_PEQUENO

\* C39: en cada estado mostrado por el motor de la primera generacion,
\* particiones ocupadas (sin la del SO) + largo de la cola de suspendidos <= 5.
C39_GradoMultiprogramacionPrimeraGeneracion ==
    simulador_1.mostrado =>
        contar_procesos_en_memoria_1(simulador_1.particiones)
            + Len(simulador_1.cola_listos_suspendidos)
            <= GRADO_MULTIPROGRAMACION_MAX

\* a lo sumo GRADO_MULTIPROGRAMACION_MAX procesos, con arribos todos distintos
arribos_distintos(procs) ==
    /\ Len(procs) <= GRADO_MULTIPROGRAMACION_MAX
    /\ \A p, q \in Indices(procs) :
           p # q => procs[p].tiempo_arribo # procs[q].tiempo_arribo

\* C40: con a lo sumo 5 procesos de arribos todos distintos, cada vez que el
\* motor de la primera generacion llega a un estado mostrado (o al final) esta
\* en el mismo estado que el motor actual: mismos procesos (estado, particion,
\* tiempo_finalizacion), mismas particiones, mismas colas y mismo reloj.
C40_GeneracionesEquivalentes ==
    [][(/\ simulador_1' # simulador_1
        /\ en_punto(simulador_1')
        /\ arribos_distintos(simulador_1'.procesos))
       => estado_mostrado(simulador_1') = estado_mostrado(simulador_actual')]_vars

\* los dos motores muestran el mismo instante de una corrida de 5 procesos de
\* arribos distintos, ya arribados todos, con alguno suspendido y alguno
\* terminado
C40_Witness ==
    /\ simulador_1.mostrado
    /\ firma(simulador_1) = firma(simulador_actual)
    /\ Len(simulador_1.procesos) = GRADO_MULTIPROGRAMACION_MAX
    /\ arribos_distintos(simulador_1.procesos)
    /\ simulador_1.tiempo_actual >= GRADO_MULTIPROGRAMACION_MAX - 1
    /\ simulador_1.cola_listos_suspendidos # <<>>
    /\ \E p \in Indices(simulador_1.procesos) :
           simulador_1.procesos[p].estado = TERMINADO
====
